---- MODULE Spec2Model ----
(***************************************************************************)
(* A model of the AGV traffic simulator: the per-tick fleet update of      *)
(* useSimulation (updateSimulation), the traffic arbiter checkTrafficRules,*)
(* the constrained Dijkstra findPath, and the commands setTarget           *)
(* (handleNodeClick) and updateConfig (handleConfigChange).                *)
(*                                                                         *)
(* Numbers.  The program computes in IEEE doubles; the model computes in   *)
(* fixed point.  Lengths, coordinates and speeds are integers in units of  *)
(* 1/LenScale pixel (LenScale = 100, so maxSpeed 1.4 px/tick is 140), and  *)
(* progress, a ratio in [0,1], is an integer in units of 1/ProgScale.      *)
(* Only comparisons of squared distances, dot products and cross-multiplied*)
(* inequalities are used where the program compares square roots, angles   *)
(* and quotients, so that the model decides them exactly.                  *)
(* The cosmetic fields color and orientation are not modelled.             *)
(*                                                                         *)
(* Local variables.  Where a loop of the program carries a local variable  *)
(* from one iteration to the next, the recursion binds its value with a    *)
(* singleton comprehension: CHOOSE r \in {F(x) : x \in {e}} : TRUE is F(e),*)
(* with e evaluated once.                                                  *)
(*                                                                         *)
(* State.  agvs is the fleet array, mapData the map, fleetConfig the       *)
(* configuration new vehicles get, isPlaying and randomMoveMode the two    *)
(* switches, now the wall clock, cmds the number of commands issued.       *)
(* snapshot is the array the last state updater read (prevAgvs), and       *)
(* verdicts the arbitration results of the last tick, one per vehicle      *)
(* (the empty sequence when the last step was not a tick).  query is the   *)
(* last call of findPath made on its own: its arguments and its result.    *)
(***************************************************************************)
EXTENDS Integers, Sequences, FiniteSets, TLC

VARIABLES agvs, mapData, fleetConfig, isPlaying, randomMoveMode, now, cmds,
          snapshot, verdicts, query

vars == <<agvs, mapData, fleetConfig, isPlaying, randomMoveMode, now, cmds,
          snapshot, verdicts, query>>

----------------------------------------------------------------------------
(* Units and program constants *)

LenScale == 100

ProgScale == 10000

RETRY_INTERVAL == 60

\* null of a node-valued field (previousNode, targetNode)
NoNode == "none"

\* null of blockerId
NoId == 0

\* null of conflictReason / waitReason
NoReason == "none"

\* Infinity of findPath's distance table
Infinity == 1000000000

----------------------------------------------------------------------------
(* Arithmetic helpers *)

Abs(a) == IF a < 0 THEN -a ELSE a

Max(a, b) == IF a > b THEN a ELSE b

Min(a, b) == IF a < b THEN a ELSE b

\* a / b rounded to the nearest integer (b > 0)
DivR(a, b) == IF a >= 0 THEN (2 * a + b) \div (2 * b) ELSE -((2 * (-a) + b) \div (2 * b))

RECURSIVE IsqrtIter(_, _)
IsqrtIter(n, x) ==
    CHOOSE r \in {IF y >= x THEN x ELSE IsqrtIter(n, y) : y \in {(x + n \div x) \div 2}} : TRUE

\* Math.sqrt on fixed-point lengths: the integer square root
Isqrt(n) == IF n < 2 THEN n ELSE IsqrtIter(n, 46341)

\* squared Euclidean distance of two points
Dist2(x1, y1, x2, y2) == (x1 - x2) * (x1 - x2) + (y1 - y2) * (y1 - y2)

\* Math.sqrt(Math.pow(x1 - x2, 2) + Math.pow(y1 - y2, 2))
Dist(x1, y1, x2, y2) == Isqrt(Dist2(x1, y1, x2, y2))

\* arr.slice(0, n)
Slice0(s, n) == SubSeq(s, 1, Min(Len(s), Max(n, 0)))

\* arr.slice(1)
Slice1(s) == SubSeq(s, 2, Len(s))

\* arr.includes(e)
Includes(s, e) == \E k \in 1..Len(s) : s[k] = e

----------------------------------------------------------------------------
(* Maps and graphs *)

Pt(id, x, y) == [id |-> id, x |-> x * LenScale, y |-> y * LenScale]

Ed(s, t, w) == [source |-> s, target |-> t, weight |-> w]

\* mapData.nodes.find(n => n.id === id); the model only looks up nodes of the map
NodeObj(md, id) == md.nodes[CHOOSE k \in 1..Len(md.nodes) : md.nodes[k].id = id]

HasNode(md, id) == \E k \in 1..Len(md.nodes) : md.nodes[k].id = id

NodeIds(md) == {md.nodes[k].id : k \in 1..Len(md.nodes)}

RECURSIVE AdjOf(_, _)
AdjOf(id, edges) ==
    IF edges = <<>> THEN <<>>
    ELSE LET e == Head(edges)
             rest == AdjOf(id, Tail(edges))
         IN IF e.source = id /\ e.target = id
               THEN <<[node |-> id, weight |-> e.weight], [node |-> id, weight |-> e.weight]>> \o rest
            ELSE IF e.source = id THEN <<[node |-> e.target, weight |-> e.weight]>> \o rest
            ELSE IF e.target = id THEN <<[node |-> e.source, weight |-> e.weight]>> \o rest
            ELSE rest

\* buildGraph: every node's neighbour list, in the order the edges are listed
buildGraph(md) == [id \in NodeIds(md) |-> AdjOf(id, md.edges)]

\* the order of `for (const node in graph)`: the order the nodes were inserted
GraphKeys(md) == [k \in 1..Len(md.nodes) |-> md.nodes[k].id]

----------------------------------------------------------------------------
(* findPath: constrained Dijkstra with a linear-scan (re-sorted) queue *)

\* queue.sort((a, b) => distances[a] - distances[b]): a stable sort
RECURSIVE InsertByDist(_, _, _)
InsertByDist(q, n, distances) ==
    IF q = <<>> THEN <<n>>
    ELSE IF distances[n] < distances[Head(q)] THEN <<n>> \o q
         ELSE <<Head(q)>> \o InsertByDist(Tail(q), n, distances)

RECURSIVE SortByDist(_, _)
SortByDist(q, distances) ==
    IF q = <<>> THEN <<>>
    ELSE CHOOSE r \in {InsertByDist(sorted, q[Len(q)], distances) :
                          sorted \in {SortByDist(SubSeq(q, 1, Len(q) - 1), distances)}} : TRUE

\* an avoided edge compared in the listed direction only
isEdgeAvoided_oneWay(avoidEdges, u, v) ==
    \E k \in 1..Len(avoidEdges) : avoidEdges[k].u = u /\ avoidEdges[k].v = v

isEdgeAvoided(avoidEdges, u, v) ==
    \E k \in 1..Len(avoidEdges) :
        \/ avoidEdges[k].u = u /\ avoidEdges[k].v = v
        \/ avoidEdges[k].u = v /\ avoidEdges[k].v = u

\* the relaxation loop over graph[u]
RECURSIVE Relax(_, _, _, _, _, _)
Relax(u, nbrs, dp, avoidNodes, avoidEdges, k) ==
    IF k > Len(nbrs) THEN dp
    ELSE CHOOSE r \in
            {Relax(u, nbrs, next, avoidNodes, avoidEdges, k + 1) :
                next \in {LET nb == nbrs[k]
                              alt == dp.distances[u] + nb.weight
                          IN IF nb.node \in avoidNodes \/ isEdgeAvoided(avoidEdges, u, nb.node)
                                THEN dp
                             ELSE IF alt < dp.distances[nb.node]
                                THEN [distances |-> [dp.distances EXCEPT ![nb.node] = alt],
                                      previous |-> [dp.previous EXCEPT ![nb.node] = u]]
                             ELSE dp}} : TRUE

\* the while (queue.length > 0) loop
RECURSIVE Dijkstra(_, _, _, _, _, _)
Dijkstra(queue, dp, graph, targetNodeId, avoidNodes, avoidEdges) ==
    IF queue = <<>> THEN dp
    ELSE CHOOSE r \in
            {LET u == Head(sorted)
             IN IF u = targetNodeId \/ dp.distances[u] = Infinity THEN dp
                ELSE CHOOSE r2 \in
                        {Dijkstra(Tail(sorted), next, graph, targetNodeId, avoidNodes, avoidEdges) :
                            next \in {Relax(u, graph[u], dp, avoidNodes, avoidEdges, 1)}} : TRUE
             : sorted \in {SortByDist(queue, dp.distances)}} : TRUE

\* the walk back along previous[], from the target
RECURSIVE Unwind(_, _, _)
Unwind(previous, u, acc) ==
    IF u = NoNode THEN acc
    ELSE CHOOSE r \in {Unwind(previous, prev, <<u>> \o acc) : prev \in {previous[u]}} : TRUE

\* findPath(startNodeId, targetNodeId, graph, avoidNodes, avoidEdges), for nodes of the map
findPath(md, startNodeId, targetNodeId, avoidNodes, avoidEdges) ==
    CHOOSE r \in
       {LET path == IF previous[targetNodeId] # NoNode \/ targetNodeId = startNodeId
                       THEN Unwind(previous, targetNodeId, <<>>)
                       ELSE <<>>
        IN IF Len(path) > 0 THEN Slice1(path) ELSE <<>>
        : previous \in
            {LET dp0 == [distances |-> [n \in NodeIds(md) |-> IF n = startNodeId THEN 0 ELSE Infinity],
                        previous |-> [n \in NodeIds(md) |-> NoNode]]
             IN Dijkstra(GraphKeys(md), dp0, buildGraph(md),
                         targetNodeId, avoidNodes, avoidEdges).previous}} : TRUE

----------------------------------------------------------------------------
(* findAllPaths: depth-first enumeration of simple paths, cut off at limit *)

\* neighbors.sort((a, b) => a.weight - b.weight): a stable sort
RECURSIVE InsertByWeight(_, _)
InsertByWeight(q, nb) ==
    IF q = <<>> THEN <<nb>>
    ELSE IF nb.weight < Head(q).weight THEN <<nb>> \o q
         ELSE <<Head(q)>> \o InsertByWeight(Tail(q), nb)

RECURSIVE SortByWeight(_)
SortByWeight(nbrs) ==
    IF nbrs = <<>> THEN <<>>
    ELSE CHOOSE r \in {InsertByWeight(sorted, nbrs[Len(nbrs)]) :
                          sorted \in {SortByWeight(SubSeq(nbrs, 1, Len(nbrs) - 1))}} : TRUE

\* results.sort((a, b) => a.cost - b.cost): a stable sort
RECURSIVE InsertByCost(_, _)
InsertByCost(q, res) ==
    IF q = <<>> THEN <<res>>
    ELSE IF res.cost < Head(q).cost THEN <<res>> \o q
         ELSE <<Head(q)>> \o InsertByCost(Tail(q), res)

RECURSIVE SortByCost(_)
SortByCost(results) ==
    IF results = <<>> THEN <<>>
    ELSE CHOOSE r \in {InsertByCost(sorted, results[Len(results)]) :
                          sorted \in {SortByCost(SubSeq(results, 1, Len(results) - 1))}} : TRUE

\* dfs(current, path, cost) with the results collected so far; ctx holds what the closure
\* captures: graph, targetNodeId, avoidNodes, avoidEdges, limit
RECURSIVE dfs(_, _, _, _, _)
RECURSIVE dfsLoop(_, _, _, _, _, _, _)
dfs(ctx, current, path, cost, results) ==
    IF Len(results) >= ctx.limit THEN results
    ELSE IF current = ctx.targetNodeId
       THEN Append(results, [path |-> Slice1(path), cost |-> cost])
    ELSE dfsLoop(ctx, current, path, cost, results, SortByWeight(ctx.graph[current]), 1)

\* for (const neighbor of neighbors)
dfsLoop(ctx, current, path, cost, results, neighbors, k) ==
    IF k > Len(neighbors) THEN results
    ELSE CHOOSE r \in
            {dfsLoop(ctx, current, path, cost, next, neighbors, k + 1) :
                next \in {LET neighbor == neighbors[k]
                          IN IF \/ Includes(path, neighbor.node)
                                \/ neighbor.node \in ctx.avoidNodes
                                \/ isEdgeAvoided(ctx.avoidEdges, current, neighbor.node)
                                THEN results
                             ELSE dfs(ctx, neighbor.node, Append(path, neighbor.node),
                                      cost + neighbor.weight, results)}} : TRUE

\* findAllPaths(startNodeId, targetNodeId, graph, avoidNodes, avoidEdges, limit)
findAllPaths(md, startNodeId, targetNodeId, avoidNodes, avoidEdges, limit) ==
    LET ctx == [graph |-> buildGraph(md), targetNodeId |-> targetNodeId,
                avoidNodes |-> avoidNodes, avoidEdges |-> avoidEdges, limit |-> limit]
    IN SortByCost(dfs(ctx, startNodeId, <<startNodeId>>, 0, <<>>))

\* dfs as it acts on the graph object it is given: st holds the results collected so
\* far and the graph, whose neighbour arrays neighbors.sort reorders in place
RECURSIVE dfsOnGraph(_, _, _, _, _)
RECURSIVE dfsOnGraphLoop(_, _, _, _, _, _)
dfsOnGraph(ctx, current, path, cost, st) ==
    IF Len(st.results) >= ctx.limit THEN st
    ELSE IF current = ctx.targetNodeId
       THEN [st EXCEPT !.results = Append(@, [path |-> Slice1(path), cost |-> cost])]
    ELSE dfsOnGraphLoop(ctx, current, path, cost,
                        [st EXCEPT !.graph[current] = SortByWeight(@)], 1)

\* for (const neighbor of neighbors), neighbors being the array held by the graph
dfsOnGraphLoop(ctx, current, path, cost, st, k) ==
    IF k > Len(st.graph[current]) THEN st
    ELSE CHOOSE r \in
            {dfsOnGraphLoop(ctx, current, path, cost, next, k + 1) :
                next \in {LET neighbor == st.graph[current][k]
                          IN IF \/ Includes(path, neighbor.node)
                                \/ neighbor.node \in ctx.avoidNodes
                                \/ isEdgeAvoided(ctx.avoidEdges, current, neighbor.node)
                                THEN st
                             ELSE dfsOnGraph(ctx, neighbor.node, Append(path, neighbor.node),
                                             cost + neighbor.weight, st)}} : TRUE

\* the graph object after findAllPaths(startNodeId, targetNodeId, graph, ...) has returned
graphAfterFindAllPaths(graph, startNodeId, targetNodeId, avoidNodes, avoidEdges, limit) ==
    LET ctx == [targetNodeId |-> targetNodeId, avoidNodes |-> avoidNodes,
                avoidEdges |-> avoidEdges, limit |-> limit]
    IN dfsOnGraph(ctx, startNodeId, <<startNodeId>>, 0, [results |-> <<>>, graph |-> graph]).graph

----------------------------------------------------------------------------
(* checkTrafficRules: the traffic arbiter *)

\* arr[0] of a possibly empty array
Undefined == "undefined"

First(s) == IF Len(s) > 0 THEN s[1] ELSE Undefined

Verdict(action, conflictReason, avoidData, blockerId) ==
    [action |-> action, conflictReason |-> conflictReason,
     avoidData |-> avoidData, blockerId |-> blockerId]

\* the reservation lookup that does not leave out the asking vehicle itself
RECURSIVE findReserving_self(_, _, _, _)
findReserving_self(currentAgv, allAgvs, myNextNode, k) ==
    IF k > Len(allAgvs) THEN 0
    ELSE IF Includes(allAgvs[k].reservedNodes, myNextNode) THEN k
    ELSE findReserving_self(currentAgv, allAgvs, myNextNode, k + 1)

\* allAgvs.find(other => other.id !== currentAgv.id && other.reservedNodes.includes(myNextNode)):
\* the index of the first such AGV, 0 when there is none
RECURSIVE findReserving(_, _, _, _)
findReserving(currentAgv, allAgvs, myNextNode, k) ==
    IF k > Len(allAgvs) THEN 0
    ELSE IF allAgvs[k].id # currentAgv.id /\ Includes(allAgvs[k].reservedNodes, myNextNode) THEN k
    ELSE findReserving(currentAgv, allAgvs, myNextNode, k + 1)

\* rule 1 left out: the arbiter without the head-on rule
HeadOn_never(currentAgv, other) == FALSE

\* rule 1, head-on
HeadOn(currentAgv, other) ==
    /\ First(currentAgv.path) = other.currentNode
    /\ First(other.path) = currentAgv.currentNode

\* rule 2, conflict A: the destination is occupied by a stationary AGV
DestOccupied(currentAgv, other) ==
    /\ currentAgv.progress < ProgScale \div 20
    /\ other.currentNode = First(currentAgv.path)
    /\ other.progress < ProgScale \div 20

\* rule 2, conflict B: destination contention, the closer AGV goes first
YieldEntry(currentAgv, other, nextNodeObj) ==
    /\ currentAgv.progress < ProgScale \div 20
    /\ First(other.path) = First(currentAgv.path)
    /\ LET myDist2 == Dist2(nextNodeObj.x, nextNodeObj.y, currentAgv.x, currentAgv.y)
           otherDist2 == Dist2(nextNodeObj.x, nextNodeObj.y, other.x, other.y)
       IN \/ otherDist2 < myDist2
          \/ /\ Abs(Isqrt(otherDist2) - Isqrt(myDist2)) < 5 * LenScale
             /\ other.id < currentAgv.id

\* rule 3: the next node is the current node of an AGV near my current node
WaitingNode(currentAgv, other, currentNodeObj) ==
    /\ First(currentAgv.path) = other.currentNode
    /\ Dist2(currentNodeObj.x, currentNodeObj.y, other.x, other.y) < (60 * LenScale) * (60 * LenScale)

\* rule 4: merge priority, mid-edge
MergeYield(currentAgv, other, nextNodeObj) ==
    /\ First(currentAgv.path) = First(other.path)
    /\ currentAgv.progress >= ProgScale \div 20
    /\ Dist(nextNodeObj.x, nextNodeObj.y, currentAgv.x, currentAgv.y)
         > Dist(nextNodeObj.x, nextNodeObj.y, other.x, other.y) + 15 * LenScale

\* rule 5: the front sensor.  |angleToOther - headingAngle| < PI/2 (normalised) is a
\* positive dot product; atan2(0, 0) is 0, the direction of (1, 0)
FrontSensor(currentAgv, other, currentNodeObj, nextNodeObj) ==
    LET physDist2 == Dist2(currentAgv.x, currentAgv.y, other.x, other.y)
        dx == nextNodeObj.x - currentNodeObj.x
        dy == nextNodeObj.y - currentNodeObj.y
        otherDx == other.x - currentAgv.x
        otherDy == other.y - currentAgv.y
        ox == IF otherDx = 0 /\ otherDy = 0 THEN 1 ELSE otherDx
        isObstacleInFront == dx * ox + dy * otherDy > 0
        totalDist == Isqrt(dx * dx + dy * dy)
        futureX == currentAgv.x + DivR(dx * currentAgv.currentSpeed, totalDist)
        futureY == currentAgv.y + DivR(dy * currentAgv.currentSpeed, totalDist)
    IN /\ physDist2 < currentAgv.safetyDistance * currentAgv.safetyDistance
       /\ isObstacleInFront
       /\ Dist2(futureX, futureY, other.x, other.y) < physDist2

\* the body of `for (const other of allAgvs)`: the verdict other produces, with
\* action "NONE" when no rule fires for it and the loop goes on
RuleOf(currentAgv, other, currentNodeObj, nextNodeObj) ==
    IF HeadOn(currentAgv, other)
       THEN Verdict("REPATH_HEAD_ON", "HeadOn",
                    <<[u |-> currentAgv.currentNode, v |-> First(currentAgv.path)]>>, other.id)
    ELSE IF DestOccupied(currentAgv, other) THEN Verdict("WAIT", "DestOccupied", <<>>, other.id)
    ELSE IF YieldEntry(currentAgv, other, nextNodeObj) THEN Verdict("WAIT", "YieldEntry", <<>>, other.id)
    ELSE IF WaitingNode(currentAgv, other, currentNodeObj) THEN Verdict("WAIT", "WaitingNode", <<>>, other.id)
    ELSE IF MergeYield(currentAgv, other, nextNodeObj) THEN Verdict("WAIT", "MergeYield", <<>>, other.id)
    ELSE IF FrontSensor(currentAgv, other, currentNodeObj, nextNodeObj)
       THEN Verdict("WAIT", "FrontSensor", <<>>, other.id)
    ELSE Verdict("NONE", NoReason, <<>>, NoId)

\* the loop over allAgvs, left at the first AGV for which a rule fires
RECURSIVE RuleLoop(_, _, _, _, _)
RuleLoop(currentAgv, allAgvs, currentNodeObj, nextNodeObj, k) ==
    IF k > Len(allAgvs) THEN Verdict("MOVE", NoReason, <<>>, NoId)
    ELSE IF allAgvs[k].id = currentAgv.id
       THEN RuleLoop(currentAgv, allAgvs, currentNodeObj, nextNodeObj, k + 1)
    ELSE LET v == RuleOf(currentAgv, allAgvs[k], currentNodeObj, nextNodeObj)
         IN IF v.action # "NONE" THEN v
            ELSE RuleLoop(currentAgv, allAgvs, currentNodeObj, nextNodeObj, k + 1)

\* the hard path borrow check: my next node is reserved by someone else
ReservedBlock(currentAgv, allAgvs) ==
    /\ currentAgv.progress < ProgScale \div 20
    /\ Len(currentAgv.path) > 0
    /\ findReserving(currentAgv, allAgvs, currentAgv.path[1], 1) # 0

checkTrafficRules(currentAgv, allAgvs, currentNodeObj, nextNodeObj) ==
    IF ReservedBlock(currentAgv, allAgvs)
       THEN Verdict("WAIT", "Reserved", <<>>,
                    allAgvs[findReserving(currentAgv, allAgvs, currentAgv.path[1], 1)].id)
       ELSE RuleLoop(currentAgv, allAgvs, currentNodeObj, nextNodeObj, 1)

----------------------------------------------------------------------------
(* updateSimulation: the record one tick commits for one AGV *)

\* the candidate targets without the exclusion of the other vehicles' targets
possibleTargets_anyFree(agv, prevAgvs, md) ==
    {n \in NodeIds(md) : n # agv.currentNode}

\* the auto-pilot's candidate targets for agv: not its own node, not another AGV's target
possibleTargets(agv, prevAgvs, md) ==
    LET reservedTargets == {prevAgvs[k].targetNode :
                               k \in {j \in 1..Len(prevAgvs) :
                                         prevAgvs[j].id # agv.id /\ prevAgvs[j].targetNode # NoNode}}
    IN {n \in NodeIds(md) : n # agv.currentNode /\ n \notin reservedTargets}

\* the auto-pilot may assign agv a target on this tick
autoPilotEligible(agv, rmm) ==
    /\ rmm
    /\ agv.status \in {"IDLE", "COMPLETED"}
    /\ agv.currentSpeed < LenScale \div 10

\* the auto-pilot assignment that plans the route but forgets to record the target
autoPilotAssign_noTarget(agv, md, draw, clock) ==
    LET newPath == findPath(md, agv.currentNode, draw, {}, <<>>)
    IN [agv EXCEPT !.path = newPath,
                   !.status = "PLANNING",
                   !.waitTimer = 0,
                   !.retryCount = 0,
                   !.pathRank = 0,
                   !.reservedNodes = Slice0(newPath, agv.hardBorrowLength),
                   !.pathPlanningTime = clock]

\* the auto-pilot branch taken: draw is the node Math.random() picked
autoPilotAssign(agv, md, draw, clock) ==
    LET newPath == findPath(md, agv.currentNode, draw, {}, <<>>)
    IN [agv EXCEPT !.targetNode = draw,
                   !.path = newPath,
                   !.status = "PLANNING",
                   !.waitTimer = 0,
                   !.retryCount = 0,
                   !.pathRank = 0,
                   !.reservedNodes = Slice0(newPath, agv.hardBorrowLength),
                   !.pathPlanningTime = clock]

\* no target or no path: the vehicle idles
idleBranch(agv) ==
    [agv EXCEPT !.status = "IDLE",
                !.currentSpeed = Max(0, agv.currentSpeed - agv.deceleration),
                !.waitTimer = 0,
                !.reservedNodes = <<>>]

\* the REPATH_HEAD_ON verdict: replan avoiding the offending edge
headOnBranch(agv, md, avoidData, currentEdgeDistance, clock) ==
    LET nextNodeId == agv.path[1]
        detourPath == findPath(md, agv.currentNode, agv.targetNode, {}, avoidData)
        newReservedNodes == Slice0(detourPath, agv.hardBorrowLength)
    IN IF Len(detourPath) > 0
          THEN IF agv.progress < ProgScale \div 20
                  THEN [agv EXCEPT !.path = detourPath,
                                   !.status = "REPATHING",
                                   !.waitTimer = 0,
                                   !.pathRank = 0,
                                   !.currentSpeed = 0,
                                   !.reservedNodes = newReservedNodes,
                                   !.pathPlanningTime = clock]
                  ELSE [agv EXCEPT !.currentNode = nextNodeId,
                                   !.path = <<agv.currentNode>> \o detourPath,
                                   !.progress = ProgScale - agv.progress,
                                   !.progressDistance =
                                       DivR(currentEdgeDistance * (ProgScale - agv.progress), ProgScale),
                                   !.status = "REPATHING",
                                   !.waitTimer = 0,
                                   !.currentSpeed = 0,
                                   !.pathRank = 0,
                                   !.reservedNodes = newReservedNodes]
          ELSE [agv EXCEPT !.status = "BLOCKED",
                           !.waitTimer = 0,
                           !.currentSpeed = Max(0, agv.currentSpeed - agv.deceleration),
                           !.reservedNodes = <<>>]

\* validNeighbors: the neighbours of the current node other than the next node
RECURSIVE validNeighbors(_, _)
validNeighbors(nbrs, nextNodeId) ==
    IF nbrs = <<>> THEN <<>>
    ELSE IF Head(nbrs).node # nextNodeId
            THEN <<Head(nbrs).node>> \o validNeighbors(Tail(nbrs), nextNodeId)
            ELSE validNeighbors(Tail(nbrs), nextNodeId)

\* the node a step-back retreats to, NoNode when there is none
stepBackNodeOf(agv, md) ==
    LET graph == buildGraph(md)
        nextNodeId == agv.path[1]
    IN IF agv.progress > ProgScale \div 10 THEN agv.currentNode
       ELSE IF agv.previousNode # NoNode
               /\ \E k \in 1..Len(graph[agv.currentNode]) :
                      graph[agv.currentNode][k].node = agv.previousNode
          THEN agv.previousNode
       ELSE First(validNeighbors(graph[agv.currentNode], nextNodeId) \o <<NoNode>>)

\* the step-back that installs the route from the retreat node without the retreat itself
stepBackBranch_noRetreat(agv, md, stepBackNode, currentEdgeDistance) ==
    LET newPathToTarget == findPath(md, stepBackNode, agv.targetNode, {}, <<>>)
    IN [agv EXCEPT !.path = newPathToTarget,
                   !.status = IF agv.progress > ProgScale \div 10 THEN "REPATHING" ELSE "DETOUR",
                   !.waitTimer = 0,
                   !.retryCount = 0,
                   !.currentSpeed = 0,
                   !.reservedNodes = Slice0(newPathToTarget, agv.hardBorrowLength)]

\* the step-back that prepends the retreat node to the route from the current node
stepBackBranch_fromCurrent(agv, md, stepBackNode, currentEdgeDistance) ==
    LET nextNodeId == agv.path[1]
        newPathToTarget == findPath(md, agv.currentNode, agv.targetNode, {}, <<>>)
        newReservedNodes == Slice0(newPathToTarget, agv.hardBorrowLength)
    IN IF agv.progress > ProgScale \div 10
          THEN [agv EXCEPT !.currentNode = nextNodeId,
                           !.path = <<agv.currentNode>> \o newPathToTarget,
                           !.progress = ProgScale - agv.progress,
                           !.progressDistance =
                               DivR(currentEdgeDistance * (ProgScale - agv.progress), ProgScale),
                           !.status = "REPATHING",
                           !.waitTimer = 0,
                           !.retryCount = 0,
                           !.currentSpeed = 0,
                           !.reservedNodes = newReservedNodes]
          ELSE [agv EXCEPT !.path = <<stepBackNode>> \o newPathToTarget,
                           !.status = "DETOUR",
                           !.waitTimer = 0,
                           !.retryCount = 0,
                           !.currentSpeed = 0,
                           !.reservedNodes = newReservedNodes]

\* the step-back taken: retreat to stepBackNode and replan from it
stepBackBranch(agv, md, stepBackNode, currentEdgeDistance) ==
    LET nextNodeId == agv.path[1]
        newPathToTarget == findPath(md, stepBackNode, agv.targetNode, {}, <<>>)
        newReservedNodes == Slice0(newPathToTarget, agv.hardBorrowLength)
    IN IF agv.progress > ProgScale \div 10
          THEN [agv EXCEPT !.currentNode = nextNodeId,
                           !.path = <<agv.currentNode>> \o newPathToTarget,
                           !.progress = ProgScale - agv.progress,
                           !.progressDistance =
                               DivR(currentEdgeDistance * (ProgScale - agv.progress), ProgScale),
                           !.status = "REPATHING",
                           !.waitTimer = 0,
                           !.retryCount = 0,
                           !.currentSpeed = 0,
                           !.reservedNodes = newReservedNodes]
          ELSE [agv EXCEPT !.path = <<stepBackNode>> \o newPathToTarget,
                           !.status = "DETOUR",
                           !.waitTimer = 0,
                           !.retryCount = 0,
                           !.currentSpeed = 0,
                           !.reservedNodes = newReservedNodes]

\* the standard retry: replan avoiding the blocked next node
rankedRetryBranch(agv, md, conflictReason, currentEdgeDistance) ==
    LET blockedNodeId == agv.path[1]
        oldCurrentNodeId == agv.currentNode
        newSpeed == Max(0, agv.currentSpeed - agv.deceleration)
        newRetryCount == agv.retryCount + 1
        detourPath == findPath(md, oldCurrentNodeId, agv.targetNode, {blockedNodeId}, <<>>)
        newReservedNodes == Slice0(detourPath, agv.hardBorrowLength)
    IN IF Len(detourPath) > 0
          THEN IF agv.progress > 0
                  THEN [agv EXCEPT !.currentNode = blockedNodeId,
                                   !.path = <<oldCurrentNodeId>> \o detourPath,
                                   !.progress = ProgScale - agv.progress,
                                   !.progressDistance =
                                       DivR(currentEdgeDistance * (ProgScale - agv.progress), ProgScale),
                                   !.status = "DETOUR",
                                   !.waitTimer = 0,
                                   !.currentSpeed = 0,
                                   !.retryCount = 0,
                                   !.pathRank = 0,
                                   !.reservedNodes = newReservedNodes]
                  ELSE [agv EXCEPT !.path = detourPath,
                                   !.status = "DETOUR",
                                   !.waitTimer = 0,
                                   !.retryCount = 0,
                                   !.pathRank = 0,
                                   !.currentSpeed = 0,
                                   !.reservedNodes = newReservedNodes]
          ELSE [agv EXCEPT !.status = "WAITING",
                           !.waitReason = conflictReason,
                           !.waitTimer = 0,
                           !.currentSpeed = newSpeed,
                           !.retryCount = newRetryCount,
                           !.reservedNodes = <<>>]

\* prevAgvs.find(a => a.id === blockerId) has status WAITING or BLOCKED
RECURSIVE findById(_, _, _)
findById(prevAgvs, id, k) ==
    IF k > Len(prevAgvs) THEN 0
    ELSE IF prevAgvs[k].id = id THEN k
    ELSE findById(prevAgvs, id, k + 1)

isBlockerWaiting(prevAgvs, blockerId) ==
    LET b == findById(prevAgvs, blockerId, 1)
    IN b # 0 /\ prevAgvs[b].status \in {"WAITING", "BLOCKED"}

\* the WAIT branch that retries one tick early
waitBranch_earlyRetry(agv, prevAgvs, md, conflictReason, blockerId, currentEdgeDistance) ==
    LET newSpeed == Max(0, agv.currentSpeed - agv.deceleration)
        newTimer == agv.waitTimer + 1
        newRetryCount == agv.retryCount + 1
        stepBackNode == stepBackNodeOf(agv, md)
    IN IF newTimer >= RETRY_INTERVAL
          THEN IF newRetryCount >= 3 /\ isBlockerWaiting(prevAgvs, blockerId) /\ stepBackNode # NoNode
                  THEN stepBackBranch(agv, md, stepBackNode, currentEdgeDistance)
                  ELSE rankedRetryBranch(agv, md, conflictReason, currentEdgeDistance)
          ELSE [agv EXCEPT !.status = "WAITING",
                           !.waitReason = conflictReason,
                           !.waitTimer = newTimer,
                           !.currentSpeed = newSpeed]

\* the WAIT branch that steps back whatever the blocker is doing
waitBranch_anyBlocker(agv, prevAgvs, md, conflictReason, blockerId, currentEdgeDistance) ==
    LET newSpeed == Max(0, agv.currentSpeed - agv.deceleration)
        newTimer == agv.waitTimer + 1
        newRetryCount == agv.retryCount + 1
        stepBackNode == stepBackNodeOf(agv, md)
    IN IF newTimer > RETRY_INTERVAL
          THEN IF newRetryCount >= 3 /\ stepBackNode # NoNode
                  THEN stepBackBranch(agv, md, stepBackNode, currentEdgeDistance)
                  ELSE rankedRetryBranch(agv, md, conflictReason, currentEdgeDistance)
          ELSE [agv EXCEPT !.status = "WAITING",
                           !.waitReason = conflictReason,
                           !.waitTimer = newTimer,
                           !.currentSpeed = newSpeed]

\* the WAIT verdict: decelerate, count, and on the retry tick recover
waitBranch(agv, prevAgvs, md, conflictReason, blockerId, currentEdgeDistance) ==
    LET newSpeed == Max(0, agv.currentSpeed - agv.deceleration)
        newTimer == agv.waitTimer + 1
        newRetryCount == agv.retryCount + 1
        stepBackNode == stepBackNodeOf(agv, md)
    IN IF newTimer > RETRY_INTERVAL
          THEN IF newRetryCount >= 3 /\ isBlockerWaiting(prevAgvs, blockerId) /\ stepBackNode # NoNode
                  THEN stepBackBranch(agv, md, stepBackNode, currentEdgeDistance)
                  ELSE rankedRetryBranch(agv, md, conflictReason, currentEdgeDistance)
          ELSE [agv EXCEPT !.status = "WAITING",
                           !.waitReason = conflictReason,
                           !.waitTimer = newTimer,
                           !.currentSpeed = newSpeed]

\* the physics engine that leaves the reservation alone when a node is reached
moveBranch_keepLease(agv, currentNodeObj, nextNodeObj, currentEdgeDistance) ==
    LET dx == nextNodeObj.x - currentNodeObj.x
        dy == nextNodeObj.y - currentNodeObj.y
        distRemaining == currentEdgeDistance - agv.progressDistance
        isFinalEdge == Len(agv.path) = 1
        \* distRemaining <= currentSpeed^2 / (2 * deceleration) + 5
        braking == isFinalEdge
                   /\ (distRemaining - 5 * LenScale) * 2 * agv.deceleration
                        <= agv.currentSpeed * agv.currentSpeed
        targetSpeed == IF braking THEN 0 ELSE agv.maxSpeed
        newSpeed == IF agv.currentSpeed < targetSpeed
                       THEN Min(agv.currentSpeed + agv.acceleration, targetSpeed)
                    ELSE IF agv.currentSpeed > targetSpeed
                       THEN Max(agv.currentSpeed - agv.deceleration, targetSpeed)
                    ELSE agv.currentSpeed
        snap == isFinalEdge /\ distRemaining < 10 * LenScale /\ newSpeed < LenScale \div 2
        newProgressDistance == IF snap THEN currentEdgeDistance ELSE agv.progressDistance + newSpeed
        rawProgress == IF snap THEN ProgScale
                       ELSE ((agv.progressDistance + newSpeed) * ProgScale) \div currentEdgeDistance
        progress == IF rawProgress > ProgScale THEN ProgScale ELSE rawProgress
        remainingPath == Slice1(agv.path)
        hasArrived == Len(remainingPath) = 0
    IN IF progress >= ProgScale
          THEN [agv EXCEPT !.x = nextNodeObj.x,
                           !.y = nextNodeObj.y,
                           !.currentNode = agv.path[1],
                           !.previousNode = agv.currentNode,
                           !.path = remainingPath,
                           !.progressDistance = 0,
                           !.progress = 0,
                           !.status = IF hasArrived THEN "COMPLETED" ELSE "MOVING",
                           !.targetNode = IF hasArrived THEN NoNode ELSE agv.targetNode,
                           !.waitTimer = 0,
                           !.waitReason = NoReason,
                           !.currentSpeed = IF hasArrived THEN 0 ELSE newSpeed,
                           !.retryCount = 0,
                           !.pathRank = 0]
          ELSE [agv EXCEPT !.x = currentNodeObj.x + DivR(dx * progress, ProgScale),
                           !.y = currentNodeObj.y + DivR(dy * progress, ProgScale),
                           !.progressDistance = newProgressDistance,
                           !.progress = progress,
                           !.status = "MOVING",
                           !.waitTimer = 0,
                           !.waitReason = NoReason,
                           !.currentSpeed = newSpeed,
                           !.reservedNodes = Slice0(agv.path, agv.hardBorrowLength)]

\* moveBranch without the snap onto the final node at low speed
moveBranch_noSnap(agv, currentNodeObj, nextNodeObj, currentEdgeDistance) ==
    LET dx == nextNodeObj.x - currentNodeObj.x
        dy == nextNodeObj.y - currentNodeObj.y
        distRemaining == currentEdgeDistance - agv.progressDistance
        isFinalEdge == Len(agv.path) = 1
        \* distRemaining <= currentSpeed^2 / (2 * deceleration) + 5
        braking == isFinalEdge
                   /\ (distRemaining - 5 * LenScale) * 2 * agv.deceleration
                        <= agv.currentSpeed * agv.currentSpeed
        targetSpeed == IF braking THEN 0 ELSE agv.maxSpeed
        newSpeed == IF agv.currentSpeed < targetSpeed
                       THEN Min(agv.currentSpeed + agv.acceleration, targetSpeed)
                    ELSE IF agv.currentSpeed > targetSpeed
                       THEN Max(agv.currentSpeed - agv.deceleration, targetSpeed)
                    ELSE agv.currentSpeed
        snap == FALSE
        newProgressDistance == IF snap THEN currentEdgeDistance ELSE agv.progressDistance + newSpeed
        rawProgress == IF snap THEN ProgScale
                       ELSE ((agv.progressDistance + newSpeed) * ProgScale) \div currentEdgeDistance
        progress == IF rawProgress > ProgScale THEN ProgScale ELSE rawProgress
        remainingPath == Slice1(agv.path)
        hasArrived == Len(remainingPath) = 0
    IN IF progress >= ProgScale
          THEN [agv EXCEPT !.x = nextNodeObj.x,
                           !.y = nextNodeObj.y,
                           !.currentNode = agv.path[1],
                           !.previousNode = agv.currentNode,
                           !.path = remainingPath,
                           !.progressDistance = 0,
                           !.progress = 0,
                           !.status = IF hasArrived THEN "COMPLETED" ELSE "MOVING",
                           !.targetNode = IF hasArrived THEN NoNode ELSE agv.targetNode,
                           !.waitTimer = 0,
                           !.waitReason = NoReason,
                           !.currentSpeed = IF hasArrived THEN 0 ELSE newSpeed,
                           !.retryCount = 0,
                           !.pathRank = 0,
                           !.reservedNodes =
                               IF hasArrived THEN <<>> ELSE Slice0(remainingPath, agv.hardBorrowLength)]
          ELSE [agv EXCEPT !.x = currentNodeObj.x + DivR(dx * progress, ProgScale),
                           !.y = currentNodeObj.y + DivR(dy * progress, ProgScale),
                           !.progressDistance = newProgressDistance,
                           !.progress = progress,
                           !.status = "MOVING",
                           !.waitTimer = 0,
                           !.waitReason = NoReason,
                           !.currentSpeed = newSpeed,
                           !.reservedNodes = Slice0(agv.path, agv.hardBorrowLength)]

\* moveBranch whose arrival does not record the node the vehicle came from
moveBranch_noPrevious(agv, currentNodeObj, nextNodeObj, currentEdgeDistance) ==
    LET dx == nextNodeObj.x - currentNodeObj.x
        dy == nextNodeObj.y - currentNodeObj.y
        distRemaining == currentEdgeDistance - agv.progressDistance
        isFinalEdge == Len(agv.path) = 1
        \* distRemaining <= currentSpeed^2 / (2 * deceleration) + 5
        braking == isFinalEdge
                   /\ (distRemaining - 5 * LenScale) * 2 * agv.deceleration
                        <= agv.currentSpeed * agv.currentSpeed
        targetSpeed == IF braking THEN 0 ELSE agv.maxSpeed
        newSpeed == IF agv.currentSpeed < targetSpeed
                       THEN Min(agv.currentSpeed + agv.acceleration, targetSpeed)
                    ELSE IF agv.currentSpeed > targetSpeed
                       THEN Max(agv.currentSpeed - agv.deceleration, targetSpeed)
                    ELSE agv.currentSpeed
        snap == isFinalEdge /\ distRemaining < 10 * LenScale /\ newSpeed < LenScale \div 2
        newProgressDistance == IF snap THEN currentEdgeDistance ELSE agv.progressDistance + newSpeed
        rawProgress == IF snap THEN ProgScale
                       ELSE ((agv.progressDistance + newSpeed) * ProgScale) \div currentEdgeDistance
        progress == IF rawProgress > ProgScale THEN ProgScale ELSE rawProgress
        remainingPath == Slice1(agv.path)
        hasArrived == Len(remainingPath) = 0
    IN IF progress >= ProgScale
          THEN [agv EXCEPT !.x = nextNodeObj.x,
                           !.y = nextNodeObj.y,
                           !.currentNode = agv.path[1],
                           !.path = remainingPath,
                           !.progressDistance = 0,
                           !.progress = 0,
                           !.status = IF hasArrived THEN "COMPLETED" ELSE "MOVING",
                           !.targetNode = IF hasArrived THEN NoNode ELSE agv.targetNode,
                           !.waitTimer = 0,
                           !.waitReason = NoReason,
                           !.currentSpeed = IF hasArrived THEN 0 ELSE newSpeed,
                           !.retryCount = 0,
                           !.pathRank = 0,
                           !.reservedNodes =
                               IF hasArrived THEN <<>> ELSE Slice0(remainingPath, agv.hardBorrowLength)]
          ELSE [agv EXCEPT !.x = currentNodeObj.x + DivR(dx * progress, ProgScale),
                           !.y = currentNodeObj.y + DivR(dy * progress, ProgScale),
                           !.progressDistance = newProgressDistance,
                           !.progress = progress,
                           !.status = "MOVING",
                           !.waitTimer = 0,
                           !.waitReason = NoReason,
                           !.currentSpeed = newSpeed,
                           !.reservedNodes = Slice0(agv.path, agv.hardBorrowLength)]

\* the physics engine: the MOVE verdict
moveBranch(agv, currentNodeObj, nextNodeObj, currentEdgeDistance) ==
    LET dx == nextNodeObj.x - currentNodeObj.x
        dy == nextNodeObj.y - currentNodeObj.y
        distRemaining == currentEdgeDistance - agv.progressDistance
        isFinalEdge == Len(agv.path) = 1
        \* distRemaining <= currentSpeed^2 / (2 * deceleration) + 5
        braking == isFinalEdge
                   /\ (distRemaining - 5 * LenScale) * 2 * agv.deceleration
                        <= agv.currentSpeed * agv.currentSpeed
        targetSpeed == IF braking THEN 0 ELSE agv.maxSpeed
        newSpeed == IF agv.currentSpeed < targetSpeed
                       THEN Min(agv.currentSpeed + agv.acceleration, targetSpeed)
                    ELSE IF agv.currentSpeed > targetSpeed
                       THEN Max(agv.currentSpeed - agv.deceleration, targetSpeed)
                    ELSE agv.currentSpeed
        snap == isFinalEdge /\ distRemaining < 10 * LenScale /\ newSpeed < LenScale \div 2
        newProgressDistance == IF snap THEN currentEdgeDistance ELSE agv.progressDistance + newSpeed
        rawProgress == IF snap THEN ProgScale
                       ELSE ((agv.progressDistance + newSpeed) * ProgScale) \div currentEdgeDistance
        progress == IF rawProgress > ProgScale THEN ProgScale ELSE rawProgress
        remainingPath == Slice1(agv.path)
        hasArrived == Len(remainingPath) = 0
    IN IF progress >= ProgScale
          THEN [agv EXCEPT !.x = nextNodeObj.x,
                           !.y = nextNodeObj.y,
                           !.currentNode = agv.path[1],
                           !.previousNode = agv.currentNode,
                           !.path = remainingPath,
                           !.progressDistance = 0,
                           !.progress = 0,
                           !.status = IF hasArrived THEN "COMPLETED" ELSE "MOVING",
                           !.targetNode = IF hasArrived THEN NoNode ELSE agv.targetNode,
                           !.waitTimer = 0,
                           !.waitReason = NoReason,
                           !.currentSpeed = IF hasArrived THEN 0 ELSE newSpeed,
                           !.retryCount = 0,
                           !.pathRank = 0,
                           !.reservedNodes =
                               IF hasArrived THEN <<>> ELSE Slice0(remainingPath, agv.hardBorrowLength)]
          ELSE [agv EXCEPT !.x = currentNodeObj.x + DivR(dx * progress, ProgScale),
                           !.y = currentNodeObj.y + DivR(dy * progress, ProgScale),
                           !.progressDistance = newProgressDistance,
                           !.progress = progress,
                           !.status = "MOVING",
                           !.waitTimer = 0,
                           !.waitReason = NoReason,
                           !.currentSpeed = newSpeed,
                           !.reservedNodes = Slice0(agv.path, agv.hardBorrowLength)]

\* the verdict the tick computes for an AGV that has a target and a path
verdictOf(agv, prevAgvs, md) ==
    checkTrafficRules([agv EXCEPT !.reservedNodes = Slice0(agv.path, agv.hardBorrowLength)],
                      prevAgvs, NodeObj(md, agv.currentNode), NodeObj(md, agv.path[1]))

\* the movement logic of one AGV
movementLogic(agv, prevAgvs, md, clock) ==
    IF agv.targetNode = NoNode \/ Len(agv.path) = 0 THEN idleBranch(agv)
    ELSE IF ~HasNode(md, agv.currentNode) \/ ~HasNode(md, agv.path[1]) THEN agv
    ELSE LET currentNodeObj == NodeObj(md, agv.currentNode)
             nextNodeObj == NodeObj(md, agv.path[1])
             currentEdgeDistance == Dist(nextNodeObj.x, nextNodeObj.y, currentNodeObj.x, currentNodeObj.y)
             v == verdictOf(agv, prevAgvs, md)
         IN IF v.action = "REPATH_HEAD_ON"
               THEN headOnBranch(agv, md, v.avoidData, currentEdgeDistance, clock)
            ELSE IF v.action = "WAIT"
               THEN waitBranch(agv, prevAgvs, md, v.conflictReason, v.blockerId, currentEdgeDistance)
            ELSE moveBranch(agv, currentNodeObj, nextNodeObj, currentEdgeDistance)

\* the callback of prevAgvs.map: draw is the auto-pilot's pick for this AGV, NoNode
\* when Math.random() >= 0.05 or the AGV is not eligible
updateAgv(agv, prevAgvs, md, rmm, draw, clock) ==
    IF autoPilotEligible(agv, rmm) /\ draw # NoNode /\ draw \in possibleTargets(agv, prevAgvs, md)
       THEN autoPilotAssign(agv, md, draw, clock)
       ELSE movementLogic(agv, prevAgvs, md, clock)

----------------------------------------------------------------------------
(* The tick over the fleet: setAgvs(prevAgvs => prevAgvs.map(...)) *)

\* the verdict recorded for an AGV by the last tick ("NONE": no arbitration ran for it)
NoVerdict == Verdict("NONE", NoReason, <<>>, NoId)

\* an update in place: every callback reads the records already updated in this tick
RECURSIVE mapFrom_inPlace(_, _, _, _, _, _)
mapFrom_inPlace(prevAgvs, acc, md, rmm, draws, clock) ==
    IF Len(acc) = Len(prevAgvs) THEN acc
    ELSE CHOOSE r \in
            {mapFrom_inPlace(prevAgvs, next, md, rmm, draws, clock) :
                next \in {LET k == Len(acc) + 1
                              seen == acc \o SubSeq(prevAgvs, k, Len(prevAgvs))
                          IN Append(acc, updateAgv(prevAgvs[k], seen, md, rmm, draws[k], clock))}} : TRUE

RECURSIVE mapFrom(_, _, _, _, _, _)
mapFrom(prevAgvs, acc, md, rmm, draws, clock) ==
    IF Len(acc) = Len(prevAgvs) THEN acc
    ELSE CHOOSE r \in
            {mapFrom(prevAgvs, next, md, rmm, draws, clock) :
                next \in {LET k == Len(acc) + 1
                          IN Append(acc, updateAgv(prevAgvs[k], prevAgvs, md, rmm, draws[k], clock))}} : TRUE

\* prevAgvs.map(agv => ...): every callback reads the array the map was called on
mapAgvs(prevAgvs, md, rmm, draws, clock) == mapFrom(prevAgvs, <<>>, md, rmm, draws, clock)

\* the draws the auto-pilot can make on this tick: for each AGV NoNode (no assignment)
\* or, when it is eligible, one of its candidate targets
Draws(prevAgvs, md, rmm) ==
    {d \in [1..Len(prevAgvs) -> NodeIds(md) \cup {NoNode}] :
        \A k \in 1..Len(prevAgvs) :
            d[k] # NoNode => /\ autoPilotEligible(prevAgvs[k], rmm)
                             /\ d[k] \in possibleTargets(prevAgvs[k], prevAgvs, md)}

\* the arbitration of the tick, per AGV, as the tick destructures it
tickVerdicts(prevAgvs, md, rmm, draws) ==
    [k \in 1..Len(prevAgvs) |->
        LET agv == prevAgvs[k]
        IN IF autoPilotEligible(agv, rmm) /\ draws[k] # NoNode THEN NoVerdict
           ELSE IF agv.targetNode = NoNode \/ Len(agv.path) = 0 THEN NoVerdict
           ELSE IF ~HasNode(md, agv.currentNode) \/ ~HasNode(md, agv.path[1]) THEN NoVerdict
           ELSE verdictOf(agv, prevAgvs, md)]

----------------------------------------------------------------------------
(* Commands *)

\* spawnAgv's record: a vehicle at rest at startNode with the fleet configuration
newAgv(id, startNode, cfg, clock) ==
    [id |-> id,
     x |-> startNode.x,
     y |-> startNode.y,
     currentNode |-> startNode.id,
     previousNode |-> NoNode,
     targetNode |-> NoNode,
     path |-> <<>>,
     progress |-> 0,
     progressDistance |-> 0,
     status |-> "IDLE",
     waitTimer |-> 0,
     waitReason |-> NoReason,
     maxSpeed |-> cfg.maxSpeed,
     acceleration |-> cfg.acceleration,
     deceleration |-> cfg.deceleration,
     safetyDistance |-> cfg.safetyDistance,
     hardBorrowLength |-> cfg.hardBorrowLength,
     currentSpeed |-> 0,
     retryCount |-> 0,
     pathRank |-> 0,
     reservedNodes |-> <<>>,
     pathPlanningTime |-> clock]

\* handleNodeClick that plans from currentNode even when the vehicle is on an edge
setTargetOf_fromCurrent(agv, md, nodeId) ==
    LET fullPath == findPath(md, agv.currentNode, nodeId, {}, <<>>)
    IN [agv EXCEPT !.targetNode = nodeId,
                   !.path = fullPath,
                   !.status = "PLANNING",
                   !.waitTimer = 0,
                   !.waitReason = NoReason,
                   !.retryCount = 0,
                   !.pathRank = 0,
                   !.reservedNodes = Slice0(fullPath, agv.hardBorrowLength)]

\* handleNodeClick that plans from the far node of the edge but forgets the prefix
setTargetOf_noPrefix(agv, md, nodeId) ==
    LET midEdge == Len(agv.path) > 0 /\ agv.progress > 0
        searchStartNode == IF midEdge THEN agv.path[1] ELSE agv.currentNode
        fullPath == findPath(md, searchStartNode, nodeId, {}, <<>>)
    IN [agv EXCEPT !.targetNode = nodeId,
                   !.path = fullPath,
                   !.status = "PLANNING",
                   !.waitTimer = 0,
                   !.waitReason = NoReason,
                   !.retryCount = 0,
                   !.pathRank = 0,
                   !.reservedNodes = Slice0(fullPath, agv.hardBorrowLength)]

\* handleNodeClick: the record setTarget(agv, nodeId) leaves
setTargetOf(agv, md, nodeId) ==
    LET midEdge == Len(agv.path) > 0 /\ agv.progress > 0
        searchStartNode == IF midEdge THEN agv.path[1] ELSE agv.currentNode
        pathPrefix == IF midEdge THEN <<agv.path[1]>> ELSE <<>>
        newRoute == findPath(md, searchStartNode, nodeId, {}, <<>>)
        fullPath == pathPrefix \o newRoute
    IN [agv EXCEPT !.targetNode = nodeId,
                   !.path = fullPath,
                   !.status = "PLANNING",
                   !.waitTimer = 0,
                   !.waitReason = NoReason,
                   !.retryCount = 0,
                   !.pathRank = 0,
                   !.reservedNodes = Slice0(fullPath, agv.hardBorrowLength)]

\* handleConfigChange on the selected AGV: the key is overwritten, nothing else
setConfigOf(agv, key, value) == [agv EXCEPT ![key] = value]

----------------------------------------------------------------------------
(* Maps, configurations and bounds of the model *)

\* a triangle A-B-C with a dead-end branch B-D
MapTri ==
    [nodes |-> <<Pt("A", 0, 0), Pt("B", 120, 0), Pt("C", 120, -90), Pt("D", 200, 0)>>,
     edges |-> <<Ed("A", "B", 120), Ed("B", "C", 90), Ed("A", "C", 150), Ed("B", "D", 80)>>]

\* the graph of scenario S2: the square A-B-C-D
MapS2 ==
    [nodes |-> <<Pt("A", 0, 0), Pt("B", 100, 0), Pt("C", 200, 0), Pt("D", 100, -100)>>,
     edges |-> <<Ed("A", "B", 100), Ed("B", "C", 100), Ed("A", "D", 100), Ed("D", "C", 100)>>]

\* the graph of scenario S1: the line A-B-C
MapS1 ==
    [nodes |-> <<Pt("A", 0, 0), Pt("B", 100, 0), Pt("C", 200, 0)>>,
     edges |-> <<Ed("A", "B", 100), Ed("B", "C", 100)>>]

\* a rectangle with two long sides, as the generator lays nodes out (at least 80 px
\* apart, each joined to its two nearest, weight = distance times 0.8 to 2.0)
MapRect ==
    [nodes |-> <<Pt("A", 0, 0), Pt("B", 240, 0), Pt("C", 240, -80), Pt("D", 0, -80)>>,
     edges |-> <<Ed("A", "B", 240), Ed("B", "C", 80), Ed("C", "D", 250), Ed("D", "A", 100)>>]

\* a long rectangle: the long sides are five times the short ones
MapGate ==
    [nodes |-> <<Pt("A", 0, 0), Pt("B", 400, 0), Pt("C", 400, -80), Pt("D", 0, -80)>>,
     edges |-> <<Ed("A", "B", 400), Ed("B", "C", 80), Ed("C", "D", 420), Ed("D", "A", 100)>>]

\* the corridor of scenario S5
MapS5 ==
    [nodes |-> <<Pt("A", 0, 0), Pt("B", 100, 0), Pt("C", 200, 0), Pt("D", 300, 0)>>,
     edges |-> <<Ed("A", "B", 100), Ed("B", "C", 100), Ed("C", "D", 100)>>]

\* the map of scenario S6: two components, the line A-B-C and the pair D-E
MapS6 ==
    [nodes |-> <<Pt("A", 0, 0), Pt("B", 100, 0), Pt("C", 200, 0), Pt("D", 0, 300),
                 Pt("E", 100, 300)>>,
     edges |-> <<Ed("A", "B", 100), Ed("B", "C", 100), Ed("D", "E", 100)>>]

\* initialFleetConfig of the application
DefaultConfig ==
    [maxSpeed |-> 140, acceleration |-> 10, deceleration |-> 15,
     safetyDistance |-> 35 * LenScale, hardBorrowLength |-> 1]

\* a fleet configuration at the upper end of the sliders (the lower end for safetyDistance)
FastConfig ==
    [maxSpeed |-> 1000, acceleration |-> 50, deceleration |-> 50,
     safetyDistance |-> 20 * LenScale, hardBorrowLength |-> 1]

\* a fleet configuration at the lower end of the speed and acceleration sliders
SlowConfig ==
    [maxSpeed |-> 100, acceleration |-> 1, deceleration |-> 1,
     safetyDistance |-> 35 * LenScale, hardBorrowLength |-> 1]

\* full speed and acceleration with the weakest brake
WeakBrakeConfig ==
    [maxSpeed |-> 1000, acceleration |-> 50, deceleration |-> 1,
     safetyDistance |-> 35 * LenScale, hardBorrowLength |-> 1]

\* the fleet configurations of the single-vehicle runs
S1Configs == {DefaultConfig, FastConfig, SlowConfig, WeakBrakeConfig}

\* the number of commands (setTarget, updateConfig) a run issues
MaxCmds == 2

\* the retries a vehicle may count before the run is cut off (retryCount grows without
\* bound while a vehicle waits where no detour exists)
MaxRetryCount == 3

\* the values updateConfig writes, per key
ConfigValues ==
    {<<"hardBorrowLength", 0>>, <<"hardBorrowLength", 2>>, <<"maxSpeed", 500>>}

\* the fleets a run starts from: vehicles spawned at rest at distinct nodes
StartNodes == {<<"A", "B">>, <<"B", "D">>, <<"D", "A">>}

\* the fleet after spawning at the nodes of starts, one spawn per millisecond
spawnFleet(md, cfg, starts) ==
    [k \in 1..Len(starts) |-> newAgv(k, NodeObj(md, starts[k]), cfg, k)]

\* the fleet after giving every vehicle of a freshly spawned fleet its target
routedFleet(md, cfg, starts, targets) ==
    [k \in 1..Len(starts) |-> setTargetOf(spawnFleet(md, cfg, starts)[k], md, targets[k])]

\* the fleets of three a run starts from, in spawn order
Fleets == {<<"C", "B", "A">>, <<"B", "C", "A">>, <<"A", "B", "D">>, <<"B", "D", "A">>}

\* the hardBorrowLength settings of the fleets of three
FleetBorrow == {0, 1, 2}

\* the heaviest edge of the graphs findPath is queried on
MaxWeight == 2

\* the most nodes, and the most edges, a query asks to avoid
MaxAvoid == 1

\* the nodes of the graphs findPath is queried on
PathNodes == <<Pt("A", 0, 0), Pt("B", 100, 0), Pt("C", 100, 100), Pt("D", 0, 100)>>

\* the node pairs an edge may join: a square with one diagonal
PathPairs == <<<<"A", "B">>, <<"B", "C">>, <<"C", "D">>, <<"D", "A">>, <<"A", "C">>>>

\* the graphs findPath is queried on: every pair is joined by an edge of weight
\* 1..MaxWeight or not at all
PathGraphs ==
    {[nodes |-> PathNodes,
      edges |-> SelectSeq([i \in 1..Len(PathPairs) |-> Ed(PathPairs[i][1], PathPairs[i][2], w[i])],
                          LAMBDA e : e.weight > 0)] :
        w \in [1..Len(PathPairs) -> 0..MaxWeight]}

\* the avoidEdges arguments: up to MaxAvoid of the pairs, in the order listed
AvoidEdgeLists ==
    {[k \in 1..Len(ix) |-> [u |-> PathPairs[ix[k]][1], v |-> PathPairs[ix[k]][2]]] :
        ix \in {s \in UNION {[1..n -> 1..Len(PathPairs)] : n \in 0..MaxAvoid} :
                   \A i \in 1..Len(s), j \in 1..Len(s) : i < j => s[i] < s[j]}}

\* the avoidNodes arguments: up to MaxAvoid nodes
AvoidNodeSets(md) == {an \in SUBSET NodeIds(md) : Cardinality(an) <= MaxAvoid}

\* the most vehicles a run spawns
MaxFleet == 3

\* the latest reading of the wall clock in a run, in milliseconds
MaxClock == 3

\* spawnAgv's candidates: the nodes at least 2 * safetyDistance away from every vehicle,
\* or every node when there is none; Math.random() picks one of them
spawnNodes(prevAgvs, md, cfg) ==
    LET all == {md.nodes[i] : i \in 1..Len(md.nodes)}
        safeNodes == {node \in all :
                         \A k \in 1..Len(prevAgvs) :
                             Dist2(prevAgvs[k].x, prevAgvs[k].y, node.x, node.y)
                                >= (2 * cfg.safetyDistance) * (2 * cfg.safetyDistance)}
    IN IF safeNodes # {} THEN safeNodes ELSE all

\* the iterations after which a run of findPath's unwinding loop is cut off
MaxUnwind == 6

\* a node id that is no key of the graph
MissingNode == "Z"

\* previous[u] of a JavaScript object: undefined for a key it does not have
Lookup(previous, u) == IF u \in DOMAIN previous THEN previous[u] ELSE Undefined

\* the previous[] table findPath has when its while (queue.length > 0) loop ends
previousOf(md, startNodeId, targetNodeId, avoidNodes, avoidEdges) ==
    LET dp0 == [distances |-> [n \in NodeIds(md) |-> IF n = startNodeId THEN 0 ELSE Infinity],
                previous |-> [n \in NodeIds(md) |-> NoNode]]
    IN Dijkstra(GraphKeys(md), dp0, buildGraph(md), targetNodeId, avoidNodes, avoidEdges).previous

\* the largest limit a query passes, the default aside
MaxLimit == 2

\* limit = 10, the default of findAllPaths
DefaultLimit == 10

\* the complete graph on five nodes: A is joined to B, C, D by edges of weight 1 and to E
\* by an edge of weight 2, as are all other pairs
MapK5 ==
    [nodes |-> <<Pt("A", 0, 0), Pt("B", 100, 0), Pt("C", 100, 100), Pt("D", 0, 100),
                 Pt("E", 200, 50)>>,
     edges |-> <<Ed("A", "B", 1), Ed("A", "C", 1), Ed("A", "D", 1), Ed("A", "E", 2),
                 Ed("B", "C", 2), Ed("B", "D", 2), Ed("B", "E", 2), Ed("C", "D", 2),
                 Ed("C", "E", 2), Ed("D", "E", 2)>>]

\* no call of findPath made yet
NoQuery ==
    [start |-> NoNode, goal |-> NoNode, avoidNodes |-> {}, avoidEdges |-> <<>>, path |-> <<>>]

----------------------------------------------------------------------------
(* State machine *)

Init ==
    /\ mapData = MapTri
    /\ fleetConfig = FastConfig
    /\ \E starts \in StartNodes : agvs = spawnFleet(mapData, fleetConfig, starts)
    /\ isPlaying = FALSE
    /\ randomMoveMode = FALSE
    /\ now = 3
    /\ cmds = 0
    /\ snapshot = agvs
    /\ verdicts = <<>>
    /\ query = NoQuery

\* one animation frame: updateSimulation
Tick ==
    /\ isPlaying
    /\ \A k \in 1..Len(agvs) : agvs[k].retryCount <= MaxRetryCount
    /\ \E draws \in Draws(agvs, mapData, randomMoveMode) :
          /\ agvs' = mapAgvs(agvs, mapData, randomMoveMode, draws, now)
          /\ verdicts' = tickVerdicts(agvs, mapData, randomMoveMode, draws)
    /\ snapshot' = agvs
    /\ UNCHANGED <<mapData, fleetConfig, isPlaying, randomMoveMode, now, cmds, query>>

\* handleNodeClick with the AGV of identity id selected
SetTarget ==
    /\ cmds < MaxCmds
    /\ \E k \in 1..Len(agvs), nodeId \in NodeIds(mapData) :
          agvs' = [j \in 1..Len(agvs) |->
                      IF agvs[j].id # agvs[k].id THEN agvs[j]
                      ELSE setTargetOf(agvs[j], mapData, nodeId)]
    /\ isPlaying' = TRUE
    /\ cmds' = cmds + 1
    /\ snapshot' = agvs
    /\ verdicts' = <<>>
    /\ UNCHANGED <<mapData, fleetConfig, randomMoveMode, now, query>>

\* handleConfigChange with the AGV of identity id selected
UpdateConfig ==
    /\ cmds < MaxCmds
    /\ \E k \in 1..Len(agvs), kv \in ConfigValues :
          /\ agvs' = [j \in 1..Len(agvs) |->
                         IF agvs[j].id # agvs[k].id THEN agvs[j]
                         ELSE setConfigOf(agvs[j], kv[1], kv[2])]
          /\ fleetConfig' = [fleetConfig EXCEPT ![kv[1]] = kv[2]]
    /\ cmds' = cmds + 1
    /\ snapshot' = agvs
    /\ verdicts' = <<>>
    /\ UNCHANGED <<mapData, isPlaying, randomMoveMode, now, query>>

Next == Tick \/ SetTarget \/ UpdateConfig

Spec == Init /\ [][Next]_vars

\* runs of setTarget commands and ticks only
NextTargets == Tick \/ SetTarget

SpecTargets == Init /\ [][NextTargets]_vars

\* scenario S2: AGV-1 at A bound for C, AGV-2 at C bound for A, on the square
\* A-B, B-C, A-D, D-C, both targets set before the first tick
InitS2 ==
    /\ mapData = MapS2
    /\ fleetConfig = DefaultConfig
    /\ agvs = routedFleet(mapData, fleetConfig, <<"A", "C">>, <<"C", "A">>)
    /\ isPlaying = TRUE
    /\ randomMoveMode = FALSE
    /\ now = 3
    /\ cmds = 2
    /\ snapshot = agvs
    /\ verdicts = <<>>
    /\ query = NoQuery

\* the animation loop runs on every frame while isPlaying
SpecS2 == InitS2 /\ [][Tick]_vars /\ WF_vars(Tick)

\* fleets of three, every vehicle given a target before the first tick
InitFleet ==
    /\ mapData = MapTri
    /\ \E h \in FleetBorrow : fleetConfig = [FastConfig EXCEPT !.hardBorrowLength = h]
    /\ \E starts \in Fleets, targets \in [1..3 -> NodeIds(mapData)] :
          agvs = routedFleet(mapData, fleetConfig, starts, targets)
    /\ isPlaying = TRUE
    /\ randomMoveMode = FALSE
    /\ now = 4
    /\ cmds = 3
    /\ snapshot = agvs
    /\ verdicts = <<>>
    /\ query = NoQuery

SpecFleet == InitFleet /\ [][Tick]_vars

\* a fleet of two at rest on the line A-B-C with the auto-pilot switched on: every
\* route is the auto-pilot's
InitAuto ==
    /\ mapData = MapS1
    /\ \E h \in FleetBorrow : fleetConfig = [FastConfig EXCEPT !.hardBorrowLength = h]
    /\ agvs = spawnFleet(mapData, fleetConfig, <<"A", "B">>)
    /\ isPlaying = TRUE
    /\ randomMoveMode = TRUE
    /\ now = 3
    /\ cmds = 0
    /\ snapshot = agvs
    /\ verdicts = <<>>
    /\ query = NoQuery

SpecAuto == InitAuto /\ [][Tick]_vars

\* two vehicles at rest at C and A on the rectangle, the fleet's hardBorrowLength any of
\* the settings; runs of setTarget commands and ticks
InitRect ==
    /\ mapData = MapRect
    /\ \E h \in FleetBorrow : fleetConfig = [FastConfig EXCEPT !.hardBorrowLength = h]
    /\ agvs = spawnFleet(mapData, fleetConfig, <<"C", "A">>)
    /\ isPlaying = FALSE
    /\ randomMoveMode = FALSE
    /\ now = 3
    /\ cmds = 0
    /\ snapshot = agvs
    /\ verdicts = <<>>
    /\ query = NoQuery

SpecRect == InitRect /\ [][NextTargets]_vars

\* two vehicles at opposite corners of the long rectangle
InitGate ==
    /\ mapData = MapGate
    /\ \E h \in FleetBorrow : fleetConfig = [FastConfig EXCEPT !.hardBorrowLength = h]
    /\ agvs = spawnFleet(mapData, fleetConfig, <<"C", "A">>)
    /\ isPlaying = FALSE
    /\ randomMoveMode = FALSE
    /\ now = 3
    /\ cmds = 0
    /\ snapshot = agvs
    /\ verdicts = <<>>
    /\ query = NoQuery

SpecGate == InitGate /\ [][NextTargets]_vars

\* scenario S1: one vehicle on the line A-B-C, spawned at a node and sent to another one
InitS1 ==
    /\ mapData = MapS1
    /\ fleetConfig \in S1Configs
    /\ \E s \in NodeIds(mapData), t \in NodeIds(mapData) :
          /\ s # t
          /\ agvs = routedFleet(mapData, fleetConfig, <<s>>, <<t>>)
    /\ isPlaying = TRUE
    /\ randomMoveMode = FALSE
    /\ now = 2
    /\ cmds = 1
    /\ snapshot = agvs
    /\ verdicts = <<>>
    /\ query = NoQuery

\* the interval timer keeps firing while the simulation plays
SpecS1 == InitS1 /\ [][Tick]_vars /\ WF_vars(Tick)

\* scenario S5: AGV-1 at B bound for C or D, AGV-2 at C bound for D, AGV-3 parked at D
InitS5 ==
    /\ mapData = MapS5
    /\ \E c \in {DefaultConfig, FastConfig}, h \in FleetBorrow :
          fleetConfig = [c EXCEPT !.hardBorrowLength = h]
    /\ \E t \in {"C", "D"} :
          LET fleet == spawnFleet(mapData, fleetConfig, <<"B", "C", "D">>)
          IN agvs = [k \in 1..3 |->
                        IF k = 1 THEN setTargetOf(fleet[1], mapData, t)
                        ELSE IF k = 2 THEN setTargetOf(fleet[2], mapData, "D")
                        ELSE fleet[3]]
    /\ isPlaying = TRUE
    /\ randomMoveMode = FALSE
    /\ now = 4
    /\ cmds = 2
    /\ snapshot = agvs
    /\ verdicts = <<>>
    /\ query = NoQuery

SpecS5 == InitS5 /\ [][Tick]_vars

\* the pathfinder on its own: a graph with positive integer weights and no fleet
InitPath ==
    /\ mapData \in PathGraphs
    /\ fleetConfig = DefaultConfig
    /\ agvs = <<>>
    /\ isPlaying = FALSE
    /\ randomMoveMode = FALSE
    /\ now = 0
    /\ cmds = 0
    /\ snapshot = agvs
    /\ verdicts = <<>>
    /\ query = NoQuery

\* one call of findPath.  The callers plan from the node the vehicle stands on and avoid
\* nodes ahead of it, so the start is none of avoidNodes
FindPath ==
    /\ query = NoQuery
    /\ \E s \in NodeIds(mapData), g \in NodeIds(mapData),
          an \in AvoidNodeSets(mapData), ae \in AvoidEdgeLists :
          /\ s \notin an
          /\ query' = [start |-> s, goal |-> g, avoidNodes |-> an, avoidEdges |-> ae,
                       path |-> findPath(mapData, s, g, an, ae)]
    /\ UNCHANGED <<agvs, mapData, fleetConfig, isPlaying, randomMoveMode, now, cmds,
                   snapshot, verdicts>>

SpecPath == InitPath /\ [][FindPath]_vars

\* findPath step by step: the search runs at the call, then the loop that walks back
\* along previous[] runs one iteration per step, then the function returns.  The goal is
\* any node id, a key of the graph or not
CallFindPath ==
    /\ query = NoQuery
    /\ \E s \in NodeIds(mapData), g \in NodeIds(mapData) \cup {MissingNode},
          an \in AvoidNodeSets(mapData), ae \in AvoidEdgeLists :
          LET previous == previousOf(mapData, s, g, an, ae)
          IN query' = [start |-> s, goal |-> g, avoidNodes |-> an, avoidEdges |-> ae,
                       path |-> <<>>, previous |-> previous, pc |-> "unwind",
                       u |-> IF Lookup(previous, g) # NoNode \/ g = s THEN g ELSE NoNode]
    /\ UNCHANGED <<agvs, mapData, fleetConfig, isPlaying, randomMoveMode, now, cmds,
                   snapshot, verdicts>>

\* while (u !== null) { path.unshift(u); u = previous[u]; }
UnwindStep ==
    /\ query # NoQuery
    /\ query.pc = "unwind"
    /\ query.u # NoNode
    /\ Len(query.path) < MaxUnwind
    /\ query' = [query EXCEPT !.path = <<query.u>> \o query.path,
                              !.u = Lookup(query.previous, query.u)]
    /\ UNCHANGED <<agvs, mapData, fleetConfig, isPlaying, randomMoveMode, now, cmds,
                   snapshot, verdicts>>

\* return path.length > 0 ? path.slice(1) : []
ReturnPath ==
    /\ query # NoQuery
    /\ query.pc = "unwind"
    /\ query.u = NoNode
    /\ query' = [query EXCEPT !.path = IF Len(query.path) > 0 THEN Slice1(query.path) ELSE <<>>,
                              !.pc = "return"]
    /\ UNCHANGED <<agvs, mapData, fleetConfig, isPlaying, randomMoveMode, now, cmds,
                   snapshot, verdicts>>

NextUnwind == CallFindPath \/ UnwindStep \/ ReturnPath

SpecUnwind == InitPath /\ [][NextUnwind]_vars

\* the ranked pathfinder on its own, on the graphs of the pathfinder and on MapK5
InitKPaths ==
    /\ mapData \in PathGraphs \cup {MapK5}
    /\ fleetConfig = DefaultConfig
    /\ agvs = <<>>
    /\ isPlaying = FALSE
    /\ randomMoveMode = FALSE
    /\ now = 0
    /\ cmds = 0
    /\ snapshot = agvs
    /\ verdicts = <<>>
    /\ query = NoQuery

\* one call of findAllPaths, and the call of findPath with the same arguments
FindAllPaths ==
    /\ query = NoQuery
    /\ \E s \in NodeIds(mapData), g \in NodeIds(mapData),
          an \in AvoidNodeSets(mapData), ae \in AvoidEdgeLists,
          limit \in (1..MaxLimit) \cup {DefaultLimit} :
          /\ s \notin an
          /\ query' = [start |-> s, goal |-> g, avoidNodes |-> an, avoidEdges |-> ae,
                       limit |-> limit,
                       paths |-> findAllPaths(mapData, s, g, an, ae, limit),
                       path |-> findPath(mapData, s, g, an, ae)]
    /\ UNCHANGED <<agvs, mapData, fleetConfig, isPlaying, randomMoveMode, now, cmds,
                   snapshot, verdicts>>

SpecKPaths == InitKPaths /\ [][FindAllPaths]_vars

\* the graph object of useMemo, held across calls of findAllPaths
InitGraph ==
    /\ mapData \in PathGraphs \cup {MapK5}
    /\ fleetConfig = DefaultConfig
    /\ agvs = <<>>
    /\ isPlaying = FALSE
    /\ randomMoveMode = FALSE
    /\ now = 0
    /\ cmds = 0
    /\ snapshot = agvs
    /\ verdicts = <<>>
    /\ query = [start |-> NoNode, goal |-> NoNode, graph |-> buildGraph(mapData)]

\* one call of findAllPaths on the held graph
FindAllPathsOnGraph ==
    /\ cmds < MaxCmds
    /\ \E s \in NodeIds(mapData), g \in NodeIds(mapData) :
          query' = [start |-> s, goal |-> g,
                    graph |-> graphAfterFindAllPaths(query.graph, s, g, {}, <<>>, DefaultLimit)]
    /\ cmds' = cmds + 1
    /\ UNCHANGED <<agvs, mapData, fleetConfig, isPlaying, randomMoveMode, now,
                   snapshot, verdicts>>

SpecGraph == InitGraph /\ [][FindAllPathsOnGraph]_vars

\* two vehicles at the two ends of the line A - B - C, spawned in either order
InitEntry ==
    /\ mapData = MapS1
    /\ \E h \in FleetBorrow : fleetConfig = [FastConfig EXCEPT !.hardBorrowLength = h]
    /\ \E starts \in {<<"A", "C">>, <<"C", "A">>} :
          agvs = spawnFleet(mapData, fleetConfig, starts)
    /\ isPlaying = FALSE
    /\ randomMoveMode = FALSE
    /\ now = 3
    /\ cmds = 0
    /\ snapshot = agvs
    /\ verdicts = <<>>
    /\ query = NoQuery

SpecEntry == InitEntry /\ [][NextTargets]_vars

\* scenario S6: one vehicle spawned at A on the map of two components, then commands
InitS6 ==
    /\ mapData = MapS6
    /\ fleetConfig \in {DefaultConfig, FastConfig}
    /\ agvs = spawnFleet(mapData, fleetConfig, <<"A">>)
    /\ isPlaying = FALSE
    /\ randomMoveMode = FALSE
    /\ now = 2
    /\ cmds = 0
    /\ snapshot = agvs
    /\ verdicts = <<>>
    /\ query = NoQuery

SpecS6 == InitS6 /\ [][NextTargets]_vars

\* one vehicle on MapTri, spawned at a node and sent to another one, then commands
InitSolo ==
    /\ mapData = MapTri
    /\ fleetConfig = FastConfig
    /\ \E s \in NodeIds(mapData), t \in NodeIds(mapData) :
          /\ s # t
          /\ agvs = routedFleet(mapData, fleetConfig, <<s>>, <<t>>)
    /\ isPlaying = TRUE
    /\ randomMoveMode = FALSE
    /\ now = 2
    /\ cmds = 0
    /\ snapshot = agvs
    /\ verdicts = <<>>
    /\ query = NoQuery

SpecSolo == InitSolo /\ [][NextTargets]_vars

\* an empty yard: vehicles are spawned while the clock and the simulation run
InitSpawn ==
    /\ mapData = MapS1
    /\ fleetConfig = FastConfig
    /\ agvs = <<>>
    /\ isPlaying = TRUE
    /\ randomMoveMode = FALSE
    /\ now = 1
    /\ cmds = 0
    /\ snapshot = agvs
    /\ verdicts = <<>>
    /\ query = NoQuery

\* spawnAgv: the new vehicle's id and pathPlanningTime are Date.now()
Spawn ==
    /\ Len(agvs) < MaxFleet
    /\ \E startNode \in spawnNodes(agvs, mapData, fleetConfig) :
          agvs' = Append(agvs, newAgv(now, startNode, fleetConfig, now))
    /\ snapshot' = agvs
    /\ verdicts' = <<>>
    /\ UNCHANGED <<mapData, fleetConfig, isPlaying, randomMoveMode, now, cmds, query>>

\* a millisecond passes
Advance ==
    /\ now < MaxClock
    /\ now' = now + 1
    /\ UNCHANGED <<agvs, mapData, fleetConfig, isPlaying, randomMoveMode, cmds, snapshot,
                   verdicts, query>>

NextSpawn == Spawn \/ Advance \/ Tick

SpecSpawn == InitSpawn /\ [][NextSpawn]_vars

----------------------------------------------------------------------------
(* Properties *)

\* C1: in scenario S2 repeated ticks eventually bring both vehicles to rest at their
\* targets, AGV-1 at C and AGV-2 at A, with nothing left to drive
C1_BothArrive ==
    <>(/\ agvs[1].currentNode = "C" /\ agvs[1].path = <<>>
       /\ agvs[2].currentNode = "A" /\ agvs[2].path = <<>>)

\* C2 (as claimed): of two vehicles that were head-on in the snapshot a tick read, at
\* least one has status REPATHING in the state the tick commits
C2_OneRepathing ==
    Len(verdicts) > 0 =>
        \A i, j \in 1..Len(snapshot) :
            (/\ i # j
             /\ Len(snapshot[i].path) > 0 /\ Len(snapshot[j].path) > 0
             /\ snapshot[i].path[1] = snapshot[j].currentNode
             /\ snapshot[j].path[1] = snapshot[i].currentNode)
            => agvs[i].status = "REPATHING" \/ agvs[j].status = "REPATHING"

\* C2 (amended): a vehicle i that was head-on with a vehicle j in the snapshot a tick
\* read is never granted MOVE by that tick.  Its verdict is REPATH_HEAD_ON unless its
\* next node is reserved (R0) or a vehicle listed before j made it WAIT; under
\* REPATH_HEAD_ON it ends the tick REPATHING when its target is another node that can
\* be reached from its current node without the edge to its next node, and BLOCKED
\* (keeping its path) when there is no such route
C2_HeadOnOutcome ==
    Len(verdicts) > 0 =>
        \A i, j \in 1..Len(snapshot) :
            (/\ i # j
             /\ Len(snapshot[i].path) > 0 /\ Len(snapshot[j].path) > 0
             /\ snapshot[i].path[1] = snapshot[j].currentNode
             /\ snapshot[j].path[1] = snapshot[i].currentNode)
            => LET a == snapshot[i]
                   u == a.currentNode
                   v == a.path[1]
                   step(S) == S \cup {n \in NodeIds(mapData) :
                                         \E k \in 1..Len(mapData.edges), m \in S :
                                             LET e == mapData.edges[k]
                                             IN /\ {e.source, e.target} = {m, n}
                                                /\ {m, n} # {u, v}}
                   reach == step(step(step({u})))
                   routeExists == a.targetNode # u /\ a.targetNode \in reach
               IN /\ verdicts[i].action \in {"REPATH_HEAD_ON", "WAIT"}
                  /\ agvs[i].status \in {"REPATHING", "BLOCKED", "WAITING", "DETOUR"}
                  /\ verdicts[i].action = "REPATH_HEAD_ON" =>
                        IF routeExists
                           THEN agvs[i].status = "REPATHING" /\ agvs[i].path # a.path
                           ELSE agvs[i].status = "BLOCKED" /\ agvs[i].path = a.path
                  /\ verdicts[i].action = "WAIT" =>
                        \/ verdicts[i].conflictReason = "Reserved"
                        \/ \E m \in 1..(j - 1) : m # i /\ snapshot[m].id = verdicts[i].blockerId

\* C2, its case: a tick has run on a head-on pair with no way around, and one of the
\* two went BLOCKED while the other did not go REPATHING
C2_Witness ==
    /\ Len(verdicts) > 0
    /\ \E i, j \in 1..Len(snapshot) :
          /\ i # j
          /\ Len(snapshot[i].path) > 0 /\ Len(snapshot[j].path) > 0
          /\ snapshot[i].path[1] = snapshot[j].currentNode
          /\ snapshot[j].path[1] = snapshot[i].currentNode
          /\ verdicts[i].action = "REPATH_HEAD_ON"
          /\ agvs[i].status = "BLOCKED"
          /\ agvs[j].status # "REPATHING"

\* C3: no two vehicles have the same currentNode with both progress < 0.05
C3_NoSharedNode ==
    \A i, j \in 1..Len(agvs) :
        i # j => ~(/\ agvs[i].currentNode = agvs[j].currentNode
                   /\ agvs[i].progress < ProgScale \div 20
                   /\ agvs[j].progress < ProgScale \div 20)

\* C4: when two vehicles at rest each held a reservation on the same next node in the
\* snapshot a tick read, the one with the earlier pathPlanningTime was not made to WAIT
\* by the reservation rule R0
C4_FirstComeFirstServed ==
    Len(verdicts) > 0 =>
        \A i, j \in 1..Len(snapshot) :
            (/\ i # j
             /\ snapshot[i].progress < ProgScale \div 20
             /\ snapshot[j].progress < ProgScale \div 20
             /\ Len(snapshot[i].path) > 0 /\ Len(snapshot[j].path) > 0
             /\ snapshot[i].path[1] = snapshot[j].path[1]
             /\ Includes(snapshot[i].reservedNodes, snapshot[i].path[1])
             /\ Includes(snapshot[j].reservedNodes, snapshot[j].path[1])
             /\ snapshot[i].pathPlanningTime < snapshot[j].pathPlanningTime)
            => ~(verdicts[i].action = "WAIT" /\ verdicts[i].conflictReason = "Reserved")

\* C5: the verdict (action, blocker) a tick computes for a vehicle and the status, path
\* and speed it commits are the same for every permutation of the fleet array
C5_OrderIndependent ==
    \A p \in Permutations(1..Len(agvs)) :
        LET q == [m \in 1..Len(agvs) |-> agvs[p[m]]]
            none == [m \in 1..Len(agvs) |-> NoNode]
            vq == tickVerdicts(q, mapData, randomMoveMode, none)
            va == tickVerdicts(agvs, mapData, randomMoveMode, none)
            nq == mapAgvs(q, mapData, randomMoveMode, none, now)
            na == mapAgvs(agvs, mapData, randomMoveMode, none, now)
        IN \A m \in 1..Len(agvs) :
              /\ vq[m].action = va[p[m]].action
              /\ vq[m].blockerId = va[p[m]].blockerId
              /\ nq[m].status = na[p[m]].status
              /\ nq[m].path = na[p[m]].path
              /\ nq[m].currentSpeed = na[p[m]].currentSpeed

\* C6: the record a tick commits for a vehicle, and its verdict, are what the update of
\* that vehicle yields on the snapshot the tick read, whatever the tick has already
\* committed for the vehicles before it; the array keeps its length and every position
\* keeps its vehicle
C6_SnapshotIsolation ==
    Len(verdicts) > 0 =>
        /\ Len(agvs) = Len(snapshot)
        /\ Len(verdicts) = Len(snapshot)
        /\ \A k \in 1..Len(snapshot) :
              /\ agvs[k].id = snapshot[k].id
              /\ \E draw \in NodeIds(mapData) \cup {NoNode} :
                    agvs[k] = updateAgv(snapshot[k], snapshot, mapData, randomMoveMode, draw, now)
              /\ \/ verdicts[k] = NoVerdict
                 \/ /\ Len(snapshot[k].path) > 0
                    /\ verdicts[k] =
                          checkTrafficRules(
                              [snapshot[k] EXCEPT
                                  !.reservedNodes = Slice0(snapshot[k].path, snapshot[k].hardBorrowLength)],
                              snapshot,
                              NodeObj(mapData, snapshot[k].currentNode),
                              NodeObj(mapData, snapshot[k].path[1]))

\* C6, its case: a tick has run in which a vehicle stepped back because its blocker
\* was WAITING in the snapshot, although the blocker, listed before it, left WAITING in
\* that same tick
C6_Witness ==
    /\ Len(verdicts) > 0
    /\ \E k, b \in 1..Len(snapshot) :
          /\ b < k
          /\ verdicts[k].action = "WAIT"
          /\ verdicts[k].blockerId = snapshot[b].id
          /\ snapshot[k].waitTimer = RETRY_INTERVAL
          /\ snapshot[k].retryCount >= 2
          /\ snapshot[b].status = "WAITING"
          /\ agvs[b].status \notin {"WAITING", "BLOCKED"}
          /\ agvs[k].status = "DETOUR"
          /\ agvs[k].path # snapshot[k].path

\* C7: when R0 did not fire for a vehicle and some other vehicle was head-on with it in
\* the snapshot a tick read, its verdict is REPATH_HEAD_ON
C7_HeadOnFirst ==
    Len(verdicts) > 0 =>
        \A k \in 1..Len(snapshot) :
            (/\ snapshot[k].targetNode # NoNode
             /\ Len(snapshot[k].path) > 0
             /\ ~(/\ snapshot[k].progress < ProgScale \div 20
                  /\ \E j \in 1..Len(snapshot) :
                        j # k /\ Includes(snapshot[j].reservedNodes, snapshot[k].path[1]))
             /\ \E j \in 1..Len(snapshot) :
                   /\ j # k
                   /\ Len(snapshot[j].path) > 0
                   /\ snapshot[k].path[1] = snapshot[j].currentNode
                   /\ snapshot[j].path[1] = snapshot[k].currentNode)
            => verdicts[k].action = "REPATH_HEAD_ON"

\* C8: every vehicle reserves at most hardBorrowLength nodes
C8_ReservationBound ==
    \A k \in 1..Len(agvs) : Len(agvs[k].reservedNodes) <= agvs[k].hardBorrowLength

\* C9: every reserved node of a vehicle is among the first hardBorrowLength elements of
\* its path
C9_ReservationPrefix ==
    \A k \in 1..Len(agvs) :
        \A m \in 1..Len(agvs[k].reservedNodes) :
            \E n \in 1..Len(agvs[k].path) :
                n <= agvs[k].hardBorrowLength /\ agvs[k].path[n] = agvs[k].reservedNodes[m]

\* C10: every vehicle with a target and a non-empty path, and status other than IDLE
\* and COMPLETED, reserves exactly the first min(hardBorrowLength, |path|) nodes of its
\* path
C10_ContinuousLease ==
    \A k \in 1..Len(agvs) :
        (/\ agvs[k].targetNode # NoNode
         /\ Len(agvs[k].path) > 0
         /\ agvs[k].status \notin {"IDLE", "COMPLETED"})
        => LET n == IF agvs[k].hardBorrowLength < Len(agvs[k].path)
                       THEN agvs[k].hardBorrowLength ELSE Len(agvs[k].path)
           IN agvs[k].reservedNodes = [m \in 1..n |-> agvs[k].path[m]]

\* C11: a vehicle whose status is IDLE or COMPLETED holds no reservation
C11_LeaseRelease ==
    \A k \in 1..Len(agvs) :
        agvs[k].status \in {"IDLE", "COMPLETED"} => agvs[k].reservedNodes = <<>>

\* C11, its case: a tick has brought a vehicle that held a reservation to its target,
\* and the vehicle is COMPLETED
C11_Witness ==
    /\ Len(verdicts) > 0
    /\ \E k \in 1..Len(agvs) :
          /\ snapshot[k].reservedNodes # <<>>
          /\ snapshot[k].status = "MOVING"
          /\ agvs[k].status = "COMPLETED"

\* C12: a vehicle without a target has an empty path and status IDLE or COMPLETED
C12_NoTargetNoPath ==
    \A k \in 1..Len(agvs) :
        agvs[k].targetNode = NoNode =>
            agvs[k].path = <<>> /\ agvs[k].status \in {"IDLE", "COMPLETED"}

\* C12, its case: a tick has taken a vehicle's target away (the arrival at the last
\* node of a route the auto-pilot had planned) while the other vehicle is under way
C12_Witness ==
    /\ Len(verdicts) > 0
    /\ randomMoveMode
    /\ \E k, j \in 1..Len(agvs) :
          /\ snapshot[k].targetNode # NoNode
          /\ Len(snapshot[k].path) = 1
          /\ agvs[k].targetNode = NoNode
          /\ agvs[k].currentNode = snapshot[k].targetNode
          /\ agvs[j].targetNode # NoNode

\* C13: the first node of every non-empty path is a graph neighbour of the vehicle's
\* current node (the turn-on-edge construction included: there the new current node and
\* the new first node are the two ends of the edge the vehicle stands on)
C13_GraphAdjacency ==
    \A k \in 1..Len(agvs) :
        Len(agvs[k].path) > 0 =>
            \E e \in 1..Len(mapData.edges) :
                {mapData.edges[e].source, mapData.edges[e].target}
                    = {agvs[k].currentNode, agvs[k].path[1]}
                /\ agvs[k].currentNode # agvs[k].path[1]

\* C13, its case: a tick has made a vehicle that never left its spawn node step back
\* (third retry, blocker WAITING or BLOCKED), so its path now starts with a neighbour
\* other than the node it was waiting for
C13_Witness ==
    /\ Len(verdicts) > 0
    /\ \E k \in 1..Len(agvs) :
          /\ verdicts[k].action = "WAIT"
          /\ snapshot[k].waitTimer = RETRY_INTERVAL
          /\ snapshot[k].retryCount >= 2
          /\ snapshot[k].previousNode = NoNode
          /\ isBlockerWaiting(snapshot, verdicts[k].blockerId)
          /\ agvs[k].status = "DETOUR"
          /\ Len(agvs[k].path) > 0
          /\ agvs[k].path[1] # snapshot[k].path[1]

\* C14: every vehicle's speed is within 0..maxSpeed, and a tick changes a vehicle's speed
\* by at most max(acceleration, deceleration)
C14_SpeedBounds ==
    \A k \in 1..Len(agvs) :
        /\ 0 <= agvs[k].currentSpeed
        /\ agvs[k].currentSpeed <= agvs[k].maxSpeed
        /\ Len(verdicts) > 0 =>
              Abs(agvs[k].currentSpeed - snapshot[k].currentSpeed)
                  <= Max(snapshot[k].acceleration, snapshot[k].deceleration)

\* C15: a tick displaces a vehicle by at most its speed (the greater of the speeds
\* before and after the tick) plus 10 px
C15_NoTeleport ==
    Len(verdicts) > 0 =>
        \A k \in 1..Len(agvs) :
            LET reach == Max(agvs[k].currentSpeed, snapshot[k].currentSpeed) + 10 * LenScale
            IN Dist2(agvs[k].x, agvs[k].y, snapshot[k].x, snapshot[k].y) <= reach * reach

\* C16: a tick that is not an arrival (a MOVE that reaches the next node) leaves a
\* vehicle's progressDistance at least what it was
C16_ProgressMonotonic ==
    Len(verdicts) > 0 =>
        \A k \in 1..Len(agvs) :
            \/ verdicts[k].action = "MOVE" /\ agvs[k].currentNode # snapshot[k].currentNode
            \/ agvs[k].progressDistance >= snapshot[k].progressDistance

\* C19: a vehicle that was COMPLETED when a tick began, and that the tick gave no new
\* target, is still COMPLETED when the tick ends
C19_CompletedAbsorbing ==
    Len(verdicts) > 0 =>
        \A k \in 1..Len(agvs) :
            (snapshot[k].status = "COMPLETED" /\ agvs[k].targetNode = NoNode)
                => agvs[k].status = "COMPLETED"

\* C17: a lone vehicle with a reachable target and positive maxSpeed, acceleration and
\* deceleration is seen MOVING and eventually is COMPLETED at its target: currentNode is the
\* target it had before the arriving tick (no command changes it in between), the position
\* is the target's, currentSpeed is 0 and reservedNodes is empty
C17_LoneDelivery ==
    /\ <>(agvs[1].status = "MOVING")
    /\ <>(/\ agvs[1].status = "COMPLETED"
          /\ snapshot[1].targetNode # NoNode
          /\ agvs[1].currentNode = snapshot[1].targetNode
          /\ agvs[1].x = NodeObj(mapData, snapshot[1].targetNode).x
          /\ agvs[1].y = NodeObj(mapData, snapshot[1].targetNode).y
          /\ agvs[1].currentSpeed = 0
          /\ agvs[1].reservedNodes = <<>>)

\* the vehicle sent from A to C over B has just arrived at C
C17_Witness ==
    /\ Len(agvs) = 1
    /\ Len(verdicts) > 0
    /\ snapshot[1].targetNode = "C"
    /\ snapshot[1].previousNode = "A"
    /\ snapshot[1].status = "MOVING"
    /\ agvs[1].status = "COMPLETED"
    /\ agvs[1].currentNode = "C"

\* C18: in the corridor of S5 a vehicle's third (or later) WAIT retry is a step-back: AGV-1
\* retreats from B towards A and AGV-2 from C towards B, each with a fresh route to its target
C18_StepBackUnblocking ==
    Len(verdicts) > 0 =>
        \A k \in 1..2 :
            (/\ verdicts[k].action = "WAIT"
             /\ snapshot[k].waitTimer = RETRY_INTERVAL
             /\ snapshot[k].retryCount >= 2)
            => /\ agvs[k].status = "DETOUR"
               /\ agvs[k].retryCount = 0
               /\ Len(agvs[k].path) > 0
               /\ agvs[k].path[1] = (IF k = 1 THEN "A" ELSE "B")

\* an edge of the map joins u and v, and avoidEdges does not list it in either direction
Joined(md, u, v, avoidEdges) ==
    /\ \E k \in 1..Len(md.edges) :
          {md.edges[k].source, md.edges[k].target} = {u, v}
    /\ ~ \E j \in 1..Len(avoidEdges) : {avoidEdges[j].u, avoidEdges[j].v} = {u, v}

\* p is a walk of the map that visits no avoided node and traverses no avoided edge
IsRoute(md, p, avoidNodes, avoidEdges) ==
    /\ \A i \in 1..Len(p) : p[i] \notin avoidNodes
    /\ \A i \in 1..(Len(p) - 1) : Joined(md, p[i], p[i + 1], avoidEdges)

\* the simple routes from s to g (with positive weights a lightest route is simple)
Routes(md, s, g, avoidNodes, avoidEdges) ==
    {p \in UNION {[1..n -> NodeIds(md)] : n \in 1..Len(md.nodes)} :
        /\ p[1] = s
        /\ p[Len(p)] = g
        /\ \A i \in 1..Len(p), j \in 1..Len(p) : i # j => p[i] # p[j]
        /\ IsRoute(md, p, avoidNodes, avoidEdges)}

\* the lightest edge between u and v
EdgeWeight(md, u, v) ==
    LET ws == {md.edges[k].weight : k \in {i \in 1..Len(md.edges) :
                  {md.edges[i].source, md.edges[i].target} = {u, v}}}
    IN CHOOSE w \in ws : \A x \in ws : w <= x

\* the total weight of a walk
RECURSIVE RouteWeight(_, _)
RouteWeight(md, p) ==
    IF Len(p) < 2 THEN 0
    ELSE EdgeWeight(md, p[1], p[2]) + RouteWeight(md, Tail(p))

C21_ResultShape ==
    query # NoQuery =>
        /\ Len(query.path) <= Cardinality(NodeIds(mapData) \cup {query.goal})
        /\ (query.pc = "return" /\ query.path # <<>>) =>
              LET full == <<query.start>> \o query.path
              IN /\ \A i \in 1..Len(query.path) : query.path[i] # query.start
                 /\ query.path[Len(query.path)] = query.goal
                 /\ \A i \in 1..Len(query.path) : query.path[i] \notin query.avoidNodes
                 /\ \A i \in 1..(Len(full) - 1) :
                       Joined(mapData, full[i], full[i + 1], query.avoidEdges)

\* C22: findAllPaths returns the min(limit, n) lightest simple routes from start to goal
\* that obey the constraints (n the number of such routes), in ascending order of cost,
\* each without the start and with the sum of its edge weights as cost; the first one
\* costs what the result of findPath costs
C22_KShortest ==
    query # NoQuery =>
        LET R == Routes(mapData, query.start, query.goal, query.avoidNodes, query.avoidEdges)
            found == {<<query.start>> \o query.paths[i].path : i \in 1..Len(query.paths)}
        IN /\ Len(query.paths) = Min(query.limit, Cardinality(R))
           /\ Cardinality(found) = Len(query.paths)
           /\ found \subseteq R
           /\ \A i \in 1..Len(query.paths) :
                 query.paths[i].cost = RouteWeight(mapData, <<query.start>> \o query.paths[i].path)
           /\ \A i \in 1..(Len(query.paths) - 1) : query.paths[i].cost <= query.paths[i + 1].cost
           /\ \A r \in R \ found : \A i \in 1..Len(query.paths) :
                 query.paths[i].cost <= RouteWeight(mapData, r)
           /\ Len(query.paths) > 0 =>
                 query.paths[1].cost = RouteWeight(mapData, <<query.start>> \o query.path)

\* no walk of the map leads from s to t
Unreachable(md, s, t) == Routes(md, s, t, {}, <<>>) = {}

\* C23: a vehicle whose target cannot be reached from where it is has an empty path and
\* is IDLE (PLANNING until the first tick after the command), and no tick makes it
\* COMPLETED; whether the command found it resting at a node or on an edge
C23_UnreachableTarget ==
    \A k \in 1..Len(agvs) :
        /\ (agvs[k].targetNode # NoNode
              /\ Unreachable(mapData, agvs[k].currentNode, agvs[k].targetNode))
           => /\ agvs[k].path = <<>>
              /\ agvs[k].status \in {"IDLE", "PLANNING"}
        /\ (Len(verdicts) > 0
              /\ snapshot[k].targetNode # NoNode
              /\ Unreachable(mapData, snapshot[k].currentNode, snapshot[k].targetNode))
           => agvs[k].status # "COMPLETED"

\* C24: setTarget on a vehicle with a path and progress > 0 makes the new path the old
\* path[0] followed by a lightest route from that node to the new target, and leaves
\* currentNode, progress, progressDistance, x, y and currentSpeed as they were
C24_SetTargetMidEdge ==
    (Len(verdicts) = 0 /\ cmds > 0) =>
        \A k \in 1..Len(agvs) :
            (Len(snapshot[k].path) > 0 /\ snapshot[k].progress > 0) =>
                LET far == snapshot[k].path[1]
                    R == Routes(mapData, far, agvs[k].targetNode, {}, <<>>)
                IN /\ Len(agvs[k].path) > 0
                   /\ agvs[k].path[1] = far
                   /\ IF far = agvs[k].targetNode \/ R = {}
                         THEN Len(agvs[k].path) = 1
                         ELSE /\ agvs[k].path[Len(agvs[k].path)] = agvs[k].targetNode
                              /\ IsRoute(mapData, agvs[k].path, {}, <<>>)
                              /\ \A r \in R : RouteWeight(mapData, agvs[k].path)
                                                 <= RouteWeight(mapData, r)
                   /\ agvs[k].currentNode = snapshot[k].currentNode
                   /\ agvs[k].progress = snapshot[k].progress
                   /\ agvs[k].progressDistance = snapshot[k].progressDistance
                   /\ agvs[k].x = snapshot[k].x
                   /\ agvs[k].y = snapshot[k].y
                   /\ agvs[k].currentSpeed = snapshot[k].currentSpeed

\* a moving vehicle on an edge has just been sent to a target that lies behind it
C24_Witness ==
    /\ Len(verdicts) = 0
    /\ cmds > 0
    /\ \E k \in 1..Len(agvs) :
          /\ snapshot[k].status = "MOVING"
          /\ snapshot[k].progress > 0
          /\ snapshot[k].currentSpeed > 0
          /\ agvs[k].status = "PLANNING"
          /\ agvs[k].targetNode # snapshot[k].targetNode
          /\ Len(agvs[k].path) >= 2
          /\ agvs[k].path[2] = agvs[k].currentNode

\* C25: setTarget(a, n) applied twice with no tick in between gives the vehicle record
\* that applying it once gives (a vehicle is PLANNING only right after a setTarget)
C25_SetTargetIdempotent ==
    (Len(verdicts) = 0 /\ cmds > 0) =>
        \A k \in 1..Len(agvs) :
            (snapshot[k].status = "PLANNING" /\ snapshot[k].targetNode = agvs[k].targetNode)
            => agvs[k] = snapshot[k]

\* the second of two setTarget commands for the same node has reached a vehicle on an edge
C25_Witness ==
    /\ Len(verdicts) = 0
    /\ cmds >= 2
    /\ \E k \in 1..Len(agvs) :
          /\ snapshot[k].status = "PLANNING"
          /\ snapshot[k].targetNode = agvs[k].targetNode
          /\ agvs[k].status = "PLANNING"
          /\ agvs[k].progress > 0
          /\ Len(agvs[k].path) >= 2

\* C26: a tick has the one outcome that the engine state determines: the fleet after it
\* is the same whatever Math.random() returns and whatever the wall clock reads
C26_Determinism ==
    [][Len(verdicts') > 0 =>
          \A d \in Draws(agvs, mapData, randomMoveMode), clock \in {now, now + 1} :
              agvs' = mapAgvs(agvs, mapData, randomMoveMode, d, clock)]_vars

\* C28: the vehicles of the fleet have pairwise distinct ids, and a spawned vehicle's id
\* is greater than the id of every vehicle spawned before it
C28_IdentityUnique ==
    \A j \in 1..Len(agvs), k \in 1..Len(agvs) : j < k => agvs[j].id < agvs[k].id

\* C27: a tick leaves a vehicle PLANNING only by an auto-pilot assignment: the vehicle was
\* IDLE or COMPLETED with currentSpeed < 0.1, its new target is neither its own
\* currentNode nor the targetNode of another vehicle in the snapshot the tick read, and
\* waitTimer, retryCount and pathRank are 0
C27_AutoPilotCandidates ==
    Len(verdicts) > 0 =>
        \A k \in 1..Len(agvs) :
            (agvs[k].status = "PLANNING" \/ agvs[k].targetNode \notin {NoNode, snapshot[k].targetNode})
            => /\ snapshot[k].status \in {"IDLE", "COMPLETED"}
               /\ snapshot[k].currentSpeed < LenScale \div 10
               /\ agvs[k].status = "PLANNING"
               /\ agvs[k].targetNode # NoNode
               /\ agvs[k].targetNode # snapshot[k].currentNode
               /\ \A j \in 1..Len(snapshot) :
                     snapshot[j].id # snapshot[k].id => snapshot[j].targetNode # agvs[k].targetNode
               /\ agvs[k].waitTimer = 0
               /\ agvs[k].retryCount = 0
               /\ agvs[k].pathRank = 0

\* the auto-pilot has given a COMPLETED vehicle a target while another vehicle had one
C27_Witness ==
    /\ Len(verdicts) > 0
    /\ \E k \in 1..Len(agvs), j \in 1..Len(agvs) :
          /\ j # k
          /\ snapshot[k].status = "COMPLETED"
          /\ agvs[k].status = "PLANNING"
          /\ snapshot[j].targetNode # NoNode
          /\ snapshot[j].targetNode # snapshot[k].currentNode

\* C29: a MOVE tick that completes the edge commits the arrival: currentNode is the old
\* path[0], previousNode the old currentNode, path the old path without its first element,
\* progress and progressDistance are 0, the position is the arrived node's and waitTimer,
\* retryCount and pathRank are 0; with the path now empty status is COMPLETED, targetNode
\* null and currentSpeed 0, otherwise status is MOVING and reservedNodes the first
\* hardBorrowLength nodes of the new path
C29_ArrivalCommit ==
    Len(verdicts) > 0 =>
        \A k \in 1..Len(agvs) :
            (/\ verdicts[k].action = "MOVE"
             /\ \/ agvs[k].currentNode # snapshot[k].currentNode
                \/ agvs[k].path # snapshot[k].path)
            => LET old == snapshot[k]
                   new == agvs[k]
                   arrived == NodeObj(mapData, old.path[1])
               IN /\ new.currentNode = old.path[1]
                  /\ new.previousNode = old.currentNode
                  /\ new.path = Tail(old.path)
                  /\ new.progress = 0
                  /\ new.progressDistance = 0
                  /\ new.x = arrived.x
                  /\ new.y = arrived.y
                  /\ new.waitTimer = 0
                  /\ new.retryCount = 0
                  /\ new.pathRank = 0
                  /\ IF new.path = <<>>
                        THEN /\ new.status = "COMPLETED"
                             /\ new.targetNode = NoNode
                             /\ new.currentSpeed = 0
                        ELSE /\ new.status = "MOVING"
                             /\ new.reservedNodes =
                                   SubSeq(new.path, 1, Min(new.hardBorrowLength, Len(new.path)))

\* a vehicle that had counted a retry reaches an intermediate node of its path
C29_Witness ==
    /\ Len(verdicts) > 0
    /\ \E k \in 1..Len(agvs) :
          /\ verdicts[k].action = "MOVE"
          /\ snapshot[k].retryCount > 0
          /\ agvs[k].currentNode = snapshot[k].path[1]
          /\ agvs[k].path # <<>>
          /\ agvs[k].status = "MOVING"

\* C30: waitTimer stays within 0..RETRY_INTERVAL; a WAIT verdict on a vehicle whose timer
\* is below RETRY_INTERVAL leaves it WAITING with the timer one higher and runs no retry;
\* a WAIT verdict at RETRY_INTERVAL (the incremented timer would be 61) runs the retry,
\* and each of its outcomes (step-back, detour, no detour) sets the timer to 0; a MOVE
\* tick sets it to 0 too
C30_WaitTimerProtocol ==
    \A k \in 1..Len(agvs) :
        /\ 0 <= agvs[k].waitTimer
        /\ agvs[k].waitTimer <= RETRY_INTERVAL
        /\ (Len(verdicts) > 0 /\ verdicts[k].action = "MOVE") => agvs[k].waitTimer = 0
        /\ (Len(verdicts) > 0 /\ verdicts[k].action = "WAIT") =>
              IF snapshot[k].waitTimer < RETRY_INTERVAL
                 THEN /\ agvs[k].status = "WAITING"
                      /\ agvs[k].waitTimer = snapshot[k].waitTimer + 1
                      /\ agvs[k].retryCount = snapshot[k].retryCount
                      /\ agvs[k].path = snapshot[k].path
                 ELSE /\ agvs[k].waitTimer = 0
                      /\ \/ agvs[k].status \in {"DETOUR", "REPATHING"} /\ agvs[k].retryCount = 0
                         \/ /\ agvs[k].status = "WAITING"
                            /\ agvs[k].retryCount = snapshot[k].retryCount + 1
                            /\ agvs[k].path = snapshot[k].path

\* a vehicle has waited 60 ticks, and the retry on the 61st finds no detour
C30_Witness ==
    /\ Len(verdicts) > 0
    /\ \E k \in 1..Len(agvs) :
          /\ verdicts[k].action = "WAIT"
          /\ snapshot[k].status = "WAITING"
          /\ snapshot[k].waitTimer = RETRY_INTERVAL
          /\ agvs[k].status = "WAITING"
          /\ agvs[k].waitTimer = 0
          /\ agvs[k].retryCount = snapshot[k].retryCount + 1

----------------------------------------------------------------------------
(* The recovery ladder *)

\* the blocker a verdict names is WAITING or BLOCKED in the array the tick read
BlockerStalled(blockerId) ==
    \E j \in 1..Len(snapshot) :
        snapshot[j].id = blockerId /\ snapshot[j].status \in {"WAITING", "BLOCKED"}

\* post is pre after a step-back to retreat: at a node the path is the retreat node
\* followed by the route from it, mid-edge the vehicle is turned round on its edge
SteppedBack(pre, post, retreat) ==
    LET route == findPath(mapData, retreat, pre.targetNode, {}, <<>>)
    IN IF pre.progress > ProgScale \div 10
          THEN /\ post.currentNode = pre.path[1]
               /\ post.path = <<pre.currentNode>> \o route
               /\ post.progress = ProgScale - pre.progress
               /\ post.status = "REPATHING"
          ELSE /\ post.currentNode = pre.currentNode
               /\ post.path = <<retreat>> \o route
               /\ post.progress = pre.progress
               /\ post.status = "DETOUR"

\* post is pre after a ranked detour round its next node
Detoured(pre, post) ==
    LET route == findPath(mapData, pre.currentNode, pre.targetNode, {pre.path[1]}, <<>>)
    IN /\ Len(route) > 0
       /\ post.path = IF pre.progress > 0 THEN <<pre.currentNode>> \o route ELSE route

\* C31: a tick steps a vehicle back only if its verdict is WAIT, the wait timer crosses
\* RETRY_INTERVAL on it, the incremented retry count is at least 3 and the blocker the
\* verdict names is WAITING or BLOCKED in the start-of-tick array; and whenever these
\* hold and a retreat node exists the vehicle is stepped back, not detoured, and its
\* retry count is reset to 0
C31_StepBackTrigger ==
    Len(verdicts) > 0 =>
        \A k \in 1..Len(agvs) :
            verdicts[k].action = "WAIT" =>
                LET pre == snapshot[k]
                    post == agvs[k]
                    retreat == stepBackNodeOf(pre, mapData)
                    trigger == /\ pre.waitTimer + 1 > RETRY_INTERVAL
                               /\ pre.retryCount + 1 >= 3
                               /\ BlockerStalled(verdicts[k].blockerId)
                IN /\ (trigger /\ retreat # NoNode) =>
                          (SteppedBack(pre, post, retreat) /\ post.retryCount = 0)
                   /\ (retreat # NoNode /\ SteppedBack(pre, post, retreat)
                          /\ ~Detoured(pre, post)) => trigger

\* C31, its case: the third retry of a vehicle whose blocker is itself stalled has
\* stepped it back to a retreat node
C31_Witness ==
    /\ Len(verdicts) > 0
    /\ \E k \in 1..Len(agvs) :
          /\ verdicts[k].action = "WAIT"
          /\ snapshot[k].waitTimer = RETRY_INTERVAL
          /\ snapshot[k].retryCount = 2
          /\ BlockerStalled(verdicts[k].blockerId)
          /\ stepBackNodeOf(snapshot[k], mapData) # NoNode
          /\ agvs[k].retryCount = 0
          /\ agvs[k].path[1] = stepBackNodeOf(snapshot[k], mapData)

----------------------------------------------------------------------------
(* The turn-on-edge construction *)

\* the length of the edge a vehicle record stands on
EdgeLength(a) ==
    Dist(NodeObj(mapData, a.path[1]).x, NodeObj(mapData, a.path[1]).y,
         NodeObj(mapData, a.currentNode).x, NodeObj(mapData, a.currentNode).y)

\* the tick that read pre and the verdict v turns the vehicle round on its edge:
\* a head-on replan at progress >= 0.05, a step-back at progress > 0.1 or a ranked
\* detour at progress > 0
ReversalDue(pre, v) ==
    LET retryDue == v.action = "WAIT" /\ pre.waitTimer + 1 > RETRY_INTERVAL
        stepBackDue == /\ retryDue
                       /\ pre.retryCount + 1 >= 3
                       /\ BlockerStalled(v.blockerId)
                       /\ stepBackNodeOf(pre, mapData) # NoNode
    IN \/ /\ v.action = "REPATH_HEAD_ON"
          /\ pre.progress >= ProgScale \div 20
          /\ Len(findPath(mapData, pre.currentNode, pre.targetNode, {}, v.avoidData)) > 0
       \/ stepBackDue /\ pre.progress > ProgScale \div 10
       \/ /\ retryDue
          /\ ~stepBackDue
          /\ pre.progress > 0
          /\ Len(findPath(mapData, pre.currentNode, pre.targetNode, {pre.path[1]}, <<>>)) > 0

\* the position a record's (currentNode, path[0], progress) stand for
ImpliedX(a) ==
    NodeObj(mapData, a.currentNode).x
        + DivR((NodeObj(mapData, a.path[1]).x - NodeObj(mapData, a.currentNode).x) * a.progress,
               ProgScale)

ImpliedY(a) ==
    NodeObj(mapData, a.currentNode).y
        + DivR((NodeObj(mapData, a.path[1]).y - NodeObj(mapData, a.currentNode).y) * a.progress,
               ProgScale)

\* C32, the construction: a mid-edge reversal swaps the two ends of the edge, inverts
\* progress and progressDistance and leaves x and y alone
C32_TurnSwap ==
    Len(verdicts) > 0 =>
        \A k \in 1..Len(agvs) :
            LET pre == snapshot[k]
                post == agvs[k]
            IN (verdicts[k].action \in {"WAIT", "REPATH_HEAD_ON"} /\ ReversalDue(pre, verdicts[k])) =>
                  /\ post.currentNode = pre.path[1]
                  /\ post.path[1] = pre.currentNode
                  /\ post.progress = ProgScale - pre.progress
                  /\ post.progressDistance
                        = DivR(EdgeLength(pre) * (ProgScale - pre.progress), ProgScale)
                  /\ post.x = pre.x
                  /\ post.y = pre.y

\* C32: a mid-edge reversal swaps the two ends of the edge, inverts progress and
\* progressDistance and leaves x and y alone, so that the position the new
\* (currentNode, path[0], progress) stand for is the position before the reversal
C32_TurnOnEdge ==
    Len(verdicts) > 0 =>
        \A k \in 1..Len(agvs) :
            LET pre == snapshot[k]
                post == agvs[k]
            IN (verdicts[k].action \in {"WAIT", "REPATH_HEAD_ON"} /\ ReversalDue(pre, verdicts[k])) =>
                  /\ post.currentNode = pre.path[1]
                  /\ post.path[1] = pre.currentNode
                  /\ post.progress = ProgScale - pre.progress
                  /\ post.progressDistance
                        = DivR(EdgeLength(pre) * (ProgScale - pre.progress), ProgScale)
                  /\ post.x = pre.x
                  /\ post.y = pre.y
                  /\ Abs(ImpliedX(post) - pre.x) <= 1
                  /\ Abs(ImpliedY(post) - pre.y) <= 1

\* C32, its case: a tick has turned a vehicle round on its edge
C32_Witness ==
    /\ Len(verdicts) > 0
    /\ \E k \in 1..Len(agvs) :
          /\ verdicts[k].action \in {"WAIT", "REPATH_HEAD_ON"}
          /\ ReversalDue(snapshot[k], verdicts[k])
          /\ agvs[k].currentNode = snapshot[k].path[1]
          /\ agvs[k].progress = ProgScale - snapshot[k].progress

----------------------------------------------------------------------------
(* Progress along the edge *)

\* C33: for every vehicle with a non-empty path, progress times the length of the edge
\* (currentNode, path[0]) is progressDistance to within the snap distance of 10 px,
\* the states right after a replan that replaces path[0] at progress > 0 included
C33_ProgressConsistency ==
    \A k \in 1..Len(agvs) :
        Len(agvs[k].path) > 0 =>
            Abs(DivR(agvs[k].progress * EdgeLength(agvs[k]), ProgScale)
                    - agvs[k].progressDistance) <= 10 * LenScale

----------------------------------------------------------------------------
(* The verdicts of the arbiter *)

\* C34: a MOVE verdict carries no reason, no avoid data and no blocker; a REPATH_HEAD_ON
\* verdict carries the edge (ego.currentNode, ego.path[0]) and the id of a vehicle that
\* is head-on with ego; a WAIT verdict carries no avoid data and the id of a vehicle of
\* the fleet other than ego
C34_VerdictWellFormed ==
    Len(verdicts) > 0 =>
        \A k \in 1..Len(agvs) :
            LET v == verdicts[k]
                ego == snapshot[k]
            IN /\ v.action \in {"MOVE", "WAIT", "REPATH_HEAD_ON", "NONE"}
               /\ v.action = "MOVE" =>
                     /\ v.conflictReason = NoReason
                     /\ v.avoidData = <<>>
                     /\ v.blockerId = NoId
               /\ v.action = "REPATH_HEAD_ON" =>
                     /\ v.avoidData = <<[u |-> ego.currentNode, v |-> ego.path[1]]>>
                     /\ \E j \in 1..Len(snapshot) :
                           /\ j # k
                           /\ snapshot[j].id = v.blockerId
                           /\ snapshot[j].currentNode = ego.path[1]
                           /\ Len(snapshot[j].path) > 0
                           /\ snapshot[j].path[1] = ego.currentNode
               /\ v.action = "WAIT" =>
                     /\ v.avoidData = <<>>
                     /\ v.blockerId # ego.id
                     /\ \E j \in 1..Len(snapshot) : j # k /\ snapshot[j].id = v.blockerId

\* C34, its case: one tick has produced a MOVE, a WAIT and a REPATH_HEAD_ON verdict
C34_Witness ==
    /\ Len(verdicts) > 0
    /\ \E i \in 1..Len(agvs), j \in 1..Len(agvs), k \in 1..Len(agvs) :
          /\ verdicts[i].action = "MOVE"
          /\ verdicts[j].action = "WAIT"
          /\ verdicts[k].action = "REPATH_HEAD_ON"

----------------------------------------------------------------------------
(* Completion *)

\* C35: a vehicle that a tick has made COMPLETED stands on the node that was its
\* target when the tick began
C35_CompletedAtTarget ==
    Len(verdicts) > 0 =>
        \A k \in 1..Len(agvs) :
            agvs[k].status = "COMPLETED" => agvs[k].currentNode = snapshot[k].targetNode

----------------------------------------------------------------------------
(* Paths *)

\* C36: every two consecutive nodes of every vehicle's path are joined by an edge of
\* the map, the paths built by prepending a node included
C36_PathIsWalk ==
    \A k \in 1..Len(agvs) :
        \A i \in 1..(Len(agvs[k].path) - 1) :
            \E e \in 1..Len(mapData.edges) :
                {mapData.edges[e].source, mapData.edges[e].target}
                    = {agvs[k].path[i], agvs[k].path[i + 1]}
                /\ agvs[k].path[i] # agvs[k].path[i + 1]

\* C36, its case: a step-back at a node has prepended the retreat node to a route of
\* at least one more node
C36_Witness ==
    /\ Len(verdicts) > 0
    /\ \E k \in 1..Len(agvs) :
          /\ verdicts[k].action = "WAIT"
          /\ snapshot[k].waitTimer = RETRY_INTERVAL
          /\ snapshot[k].retryCount >= 2
          /\ BlockerStalled(verdicts[k].blockerId)
          /\ agvs[k].status = "DETOUR"
          /\ Len(agvs[k].path) >= 2
          /\ agvs[k].path[1] = stepBackNodeOf(snapshot[k], mapData)
          /\ agvs[k].path[1] # snapshot[k].path[1]

----------------------------------------------------------------------------
(* The graph across calls of findAllPaths *)

\* C37: after any call of findAllPaths every node's neighbour sequence is the sequence
\* buildGraph made, element by element
C37_GraphUnchanged ==
    "graph" \in DOMAIN query => query.graph = buildGraph(mapData)

----------------------------------------------------------------------------
(* Targets under the auto-pilot *)

\* C38: when only the auto-pilot assigns targets, no two different vehicles hold the
\* same target, also when two idle vehicles are given targets in the same tick
C38_TargetExclusive ==
    \A j \in 1..Len(agvs), k \in 1..Len(agvs) :
        (j # k /\ agvs[j].targetNode # NoNode) => agvs[j].targetNode # agvs[k].targetNode

----------------------------------------------------------------------------
(* Contention for a node *)

\* C39: of two vehicles that are both at progress < 0.05 with the same next node, the
\* entry contention rule makes at most one wait for the other in a tick
C39_OneLoser ==
    Len(verdicts) > 0 =>
        \A j \in 1..Len(agvs), k \in 1..Len(agvs) :
            (/\ j # k
             /\ Len(snapshot[j].path) > 0
             /\ Len(snapshot[k].path) > 0
             /\ snapshot[j].path[1] = snapshot[k].path[1]
             /\ snapshot[j].progress < ProgScale \div 20
             /\ snapshot[k].progress < ProgScale \div 20)
            => ~(/\ verdicts[j].action = "WAIT"
                 /\ verdicts[j].conflictReason = "YieldEntry"
                 /\ verdicts[j].blockerId = snapshot[k].id
                 /\ verdicts[k].action = "WAIT"
                 /\ verdicts[k].conflictReason = "YieldEntry"
                 /\ verdicts[k].blockerId = snapshot[j].id)

----------------------------------------------------------------------------
(* The front sensor *)

\* other lies within ego's safetyDistance and within a quarter turn of the heading of
\* the edge ego stands on
AheadInRange(ego, other) ==
    LET dx == NodeObj(mapData, ego.path[1]).x - NodeObj(mapData, ego.currentNode).x
        dy == NodeObj(mapData, ego.path[1]).y - NodeObj(mapData, ego.currentNode).y
    IN /\ Dist2(ego.x, ego.y, other.x, other.y) < ego.safetyDistance * ego.safetyDistance
       /\ dx * (other.x - ego.x) + dy * (other.y - ego.y) > 0

\* C40: while another vehicle lies within ego's safetyDistance and ahead of it, a tick
\* does not bring ego nearer to where that vehicle is
C40_FrontSensorHolds ==
    Len(verdicts) > 0 =>
        \A k \in 1..Len(agvs), j \in 1..Len(agvs) :
            (/\ j # k
             /\ snapshot[k].targetNode # NoNode
             /\ Len(snapshot[k].path) > 0
             /\ AheadInRange(snapshot[k], snapshot[j]))
            => Dist2(agvs[k].x, agvs[k].y, snapshot[j].x, snapshot[j].y)
                 >= Dist2(snapshot[k].x, snapshot[k].y, snapshot[j].x, snapshot[j].y)

====
